---- MODULE Spec2Model ----
(***************************************************************************)
(* A model of step/tracking.py (RDCEP/STEP): track() links the storms that  *)
(* the identification step labelled frame by frame into storms followed     *)
(* through time, and relabel_sequential compacts the labels at the end.     *)
(*                                                                          *)
(* Numbers.  The code computes with IEEE doubles; the model computes with   *)
(* integers:                                                                *)
(*   - a centroid is a triple (r, c, w) standing for the double nearest to  *)
(*     (r/w, c/w); w = 0 is the nan that a division by a zero intensity sum *)
(*     produces;                                                            *)
(*   - a displacement is a triple of the same kind for the exact difference *)
(*     of the two quotients, together with the two centroids: whether the   *)
(*     difference of the two rounded doubles falls short of the exact one   *)
(*     matters when the exact distance equals km;                           *)
(*   - the similarity measure is the double that the code computes, with    *)
(*     every division, product and sum rounded as numpy rounds it; its      *)
(*     comparison with tau is read off the decimals of the measure without  *)
(*     rounding when these are clear of tau by more than the roundings;     *)
(*   - tau is given in thousandths, phi and km are whole numbers.           *)
(* The grid is one row of NumCols cells, so all centroids lie on one line   *)
(* and the cosine of the angle between two displacements is +1 or -1.       *)
(* angle() is also applied on its own to whole-number vectors of the plane. *)
(* similarity() is also applied on its own to two storms, in both orders.   *)
(* printed counts the lines that the "if test:" printouts write.            *)
(***************************************************************************)
EXTENDS Integers, Sequences, FiniteSets, TLC

VARIABLES labeled_maps, precip_data, tau, phi, km, test,
          result_data, time_index, label_idx, max_label_so_far,
          vec_angle, seq_result, pc, passes, printed,
          first_outcome, vec_one, vec_two, sim_forward, sim_backward

vars == <<labeled_maps, precip_data, tau, phi, km, test,
          result_data, time_index, label_idx, max_label_so_far,
          vec_angle, seq_result, pc, passes, printed,
          first_outcome, vec_one, vec_two, sim_forward, sim_backward>>

\* the parameters of track()
inputs == <<labeled_maps, precip_data, tau, phi, km, test>>

\* what the callers of track(), of angle() and of similarity() hold: the
\* outcome of an earlier call of track(), the two arguments of angle(), what
\* similarity() returned for two storms and for the same two storms
\* exchanged; no step of track() touches it
callers == <<first_outcome, vec_one, vec_two, sim_forward, sim_backward>>

(***************************************************************************)
(* Bounds of the model.                                                     *)
(***************************************************************************)
\* number of time slices of a series (shape[0])
NumFrames ==
    3

\* number of cells of the one-row grid (shape[2]; shape[1] is 1)
NumCols ==
    4

Times == 0 .. (NumFrames - 1)

Cells == {<<0, c>> : c \in 0 .. (NumCols - 1)}

\* a row of the grid given by its leading values, background/zero after them
GridRow(values) ==
    [cell \in Cells |->
        IF cell[2] + 1 <= Len(values) THEN values[cell[2] + 1] ELSE 0]

\* The frames the inputs are drawn from: the labels of one time slice with the
\* precipitation under them.  Intensity sums of the regions are 0, 1, 2 or 4.
Scenes ==
    { [lab |-> GridRow(<<0, 0, 0, 0>>), pre |-> GridRow(<<1, 1, 1, 1>>)],
      [lab |-> GridRow(<<1, 1, 0, 0>>), pre |-> GridRow(<<1, 1, 0, 0>>)],
      [lab |-> GridRow(<<0, 1, 1, 0>>), pre |-> GridRow(<<0, 3, 1, 0>>)],
      [lab |-> GridRow(<<1, 1, 0, 2>>), pre |-> GridRow(<<1, 1, 0, 2>>)],
      [lab |-> GridRow(<<1, 2, 0, 0>>), pre |-> GridRow(<<1, 1, 0, 0>>)],
      [lab |-> GridRow(<<0, 0, 0, 2>>), pre |-> GridRow(<<0, 0, 0, 1>>)],
      [lab |-> GridRow(<<2, 0, 1, 1>>), pre |-> GridRow(<<2, 0, 1, 3>>)],
      [lab |-> GridRow(<<1, 1, 0, 0>>), pre |-> GridRow(<<0, 0, 1, 1>>)] }

\* similarity thresholds, in thousandths
Taus == {50, 500}

\* decay constants of the similarity
Phis == {1, 2}

\* distance thresholds, in grid cells
Kms == {0, 2}

(***************************************************************************)
(* Helpers on sets and grids.                                               *)
(***************************************************************************)
RECURSIVE SumOver(_, _)
\* np.sum of f over the cells (or pairs) of S
SumOver(S, f) ==
    IF S = {} THEN 0
    ELSE LET x == CHOOSE y \in S : TRUE
         IN  f[x] + SumOver(S \ {x}, f)

SetMax(S) == CHOOSE x \in S : \A y \in S : y <= x

SetMin(S) == CHOOSE x \in S : \A y \in S : x <= y

RECURSIVE SortedSeq(_)
\* the elements of S in ascending order
SortedSeq(S) ==
    IF S = {} THEN <<>>
    ELSE <<SetMin(S)>> \o SortedSeq(S \ {SetMin(S)})

LabelsOf(frame) == {frame[cell] : cell \in Cells}

\* np.unique of one time slice: its distinct values, ascending
Unique(frame) == SortedSeq(LabelsOf(frame))

\* np.max of one time slice
FrameMax(frame) == SetMax(LabelsOf(frame))

\* np.where(frame == label, 1, 0), as the set of cells that hold 1
Footprint(frame, label) == {cell \in Cells : frame[cell] = label}

\* np.sum of a footprint
Size(footprint) == Cardinality(footprint)

\* np.sum(np.where(locs == 1, raw_data, 0))
PrecipSum(footprint, raw_data) == SumOver(footprint, raw_data)

(***************************************************************************)
(* CentroidGeometry.                                                        *)
(***************************************************************************)
\* scipy center_of_mass of np.where(mask, precip, 0): (sum r*a / sum a,
\* sum c*a / sum a), kept as the three sums; w = 0 is nan
CenterOfMass(footprint, raw_data) ==
    [r |-> SumOver(footprint, [cell \in Cells |-> cell[1] * raw_data[cell]]),
     c |-> SumOver(footprint, [cell \in Cells |-> cell[2] * raw_data[cell]]),
     w |-> PrecipSum(footprint, raw_data)]

\* the binade of the quotient n / w (n, w > 0): the e with
\* 2^e <= n / w < 2^(e + 1)
RECURSIVE BinadeUp(_, _)
BinadeUp(n, w) == IF n >= 2 * w THEN 1 + BinadeUp(n, 2 * w) ELSE 0

RECURSIVE BinadeDown(_, _)
BinadeDown(n, w) == IF n >= w THEN 0 ELSE 1 + BinadeDown(2 * n, w)

Binade(n, w) == IF n >= w THEN BinadeUp(n, w) ELSE 0 - BinadeDown(n, w)

\* the remainder of rem * 2^k by w, one binary digit of the division at a time
RECURSIVE ShiftMod(_, _, _)
ShiftMod(rem, w, k) ==
    IF k = 0 \/ rem = 0 THEN rem ELSE ShiftMod((2 * rem) % w, w, k - 1)

\* the double division n / w (n >= 0, w > 0) is exact: the quotient has no more
\* than 53 binary digits
Exact(n, w) == n % w = 0 \/ ShiftMod(n % w, w, 52 - Binade(n, w)) = 0

\* the rounding of the double division n / w (n, w > 0) to 53 binary digits,
\* nearest, ties to even: fl(n / w) = n / w + (RoundOff(n, w) / w) * 2^(e - 52)
\* with e = Binade(n, w)
RoundOff(n, w) ==
    LET before == ShiftMod(n % w, w, 51 - Binade(n, w))
        rem == (2 * before) % w
        odd == 2 * before >= w
    IN  IF 2 * rem < w THEN 0 - rem
        ELSE IF 2 * rem > w THEN w - rem
        ELSE IF odd THEN w - rem ELSE 0 - rem

\* the two column centroids lo < hi are a whole number of cells apart; the
\* doubles differ by less: fl(fl(hi) - fl(lo)) < hi - lo.  When the division
\* of lo is exact so is that of hi, and the difference.  Otherwise the exact
\* difference of the two doubles is below hi - lo by
\* (RoundOff(lo) / lo.w * 2^e_lo - RoundOff(hi) / hi.w * 2^e_hi) * 2^-52 and
\* the subtraction rounds it back to hi - lo unless that exceeds half the
\* spacing of the doubles just below hi - lo
FallsShort(lo, hi, apart) ==
    /\ ~Exact(lo.c, lo.w)
    /\ LET e_lo == Binade(lo.c, lo.w)
           e_hi == Binade(hi.c, hi.w)
           e_half == Binade(2 * apart - 1, 2) - 1
           e_min == IF e_lo < e_half THEN e_lo ELSE e_half
       IN  hi.w * RoundOff(lo.c, lo.w) * 2 ^ (e_lo - e_min)
               - lo.w * RoundOff(hi.c, hi.w) * 2 ^ (e_hi - e_min)
             > lo.w * hi.w * 2 ^ (e_half - e_min)

\* the magnitude of the difference of the two doubles is smaller than the
\* exact distance of the two centroids, a whole number of cells (the rows of
\* the one-row grid are all 0 and their difference is exact)
Short(current, previous) ==
    LET c == current.c * previous.w - previous.c * current.w
        w == current.w * previous.w
    IN  /\ w # 0
        /\ c # 0
        /\ c % w = 0
        /\ IF c > 0
           THEN FallsShort(previous, current, c \div w)
           ELSE FallsShort(current, previous, (0 - c) \div w)

\* current - previous, over the common denominator, with the two centroids
\* whose doubles the code subtracts
displacement(current, previous) ==
    [r |-> current.r * previous.w - previous.r * current.w,
     c |-> current.c * previous.w - previous.c * current.w,
     w |-> current.w * previous.w,
     current |-> current,
     previous |-> previous]

IsNan(vector) == vector.w = 0

IsZeroVector(vector) == vector.w # 0 /\ vector.r = 0 /\ vector.c = 0

\* magnitude(vector) < limit; a comparison with nan is false.  At an exact
\* distance of limit the doubles decide
MagnitudeLess(vector, limit) ==
    /\ ~IsNan(vector)
    /\ limit > 0
    /\ LET squared == vector.r * vector.r + vector.c * vector.c
           bound == limit * limit * vector.w * vector.w
       IN  \/ squared < bound
           \/ /\ squared = bound
              /\ vector.r = 0
              /\ Short(vector.current, vector.previous)

\* values of vec_angle: never assigned, nan, or a number in thousandths
Unassigned == [kind |-> "unassigned", milli |-> 0]

NanAngle == [kind |-> "nan", milli |-> 0]

Number(milli) == [kind |-> "number", milli |-> milli]

\* np.dot(vec_one, vec_two), times the product of the two denominators
Dot(one, two) == one.r * two.r + one.c * two.c

\* the two vectors lie on one line
Parallel(one, two) == one.r * two.c = one.c * two.r

\* pairs of squared norms of parallel whole-number vectors (components up to
\* 4) for which norm * norm, computed in doubles from the two rounded square
\* roots, is below |dot|, so that the quotient leaves [-1, 1]:
\* sqrt(13.) * sqrt(13.) = 12.999999999999998, sqrt(18.) * sqrt(18.) =
\* 17.999999999999996
NormProductBelowDot == {<<13, 13>>, <<18, 18>>}

\* dot / (norm * norm) is above 1 or below -1; vectors along one axis have
\* exact norms (sqrt(a * a) = |a|) and an exact quotient
QuotientOutside(one, two) ==
    /\ Parallel(one, two)
    /\ one.w = 1
    /\ two.w = 1
    /\ <<Dot(one, one), Dot(two, two)>> \in NormProductBelowDot

\* np.arccos of the quotient in thousandths of a radian, rounded down to one
\* of 0, 30, 45, 60, 90, 120, 135, 150, 180 degrees (cos^2 = 3/4, 1/2, 1/4, 0);
\* two vectors on one line have the quotient 1 or -1
ArcCos(one, two) ==
    LET d == Dot(one, two)
        dd == d * d
        nn == Dot(one, one) * Dot(two, two)
    IN  IF Parallel(one, two) THEN (IF d > 0 THEN 0 ELSE 3142)
        ELSE IF d > 0
        THEN IF 4 * dd > 3 * nn THEN 0
             ELSE IF 2 * dd > nn THEN 524
             ELSE IF 4 * dd > nn THEN 785
             ELSE 1047
        ELSE IF dd = nn THEN 3142
             ELSE IF 4 * dd >= 3 * nn THEN 2618
             ELSE IF 2 * dd >= nn THEN 2356
             ELSE IF 4 * dd >= nn THEN 2094
             ELSE 1571

\* np.arccos(dot / (norm * norm)): nan when a vector is nan or has length 0
\* (0/0) and when rounding puts the quotient outside [-1, 1]; on the one-row
\* grid the vectors are parallel, the quotient is 1 or -1 and the result 0
\* or pi
angle(one, two) ==
    IF IsNan(one) \/ IsNan(two) \/ IsZeroVector(one) \/ IsZeroVector(two)
    THEN NanAngle
    ELSE IF QuotientOutside(one, two)
         THEN NanAngle
         ELSE Number(ArcCos(one, two))

\* vec_angle > -.33; a comparison with nan is false
AngleAccepts(a) == a.kind = "number" /\ a.milli > -330

(***************************************************************************)
(* Doubles.  A non-negative double is a record (m, e) for the value         *)
(* m * 2^e, with the whole number m given by its digits in base 2^14, the   *)
(* least significant first, and no leading zero; zero has no digit.  Every  *)
(* operation rounds to nearest, ties to even, on 53 binary digits, none of  *)
(* them below 2^-1074.                                                      *)
(***************************************************************************)
Zero == [m |-> <<>>, e |-> 0]

Radix == 2 ^ 14

Zeros(n) == [j \in 1 .. n |-> 0]

RECURSIVE Trim(_)
\* without the leading zeros
Trim(digits) ==
    IF digits = <<>> \/ digits[Len(digits)] # 0 THEN digits
    ELSE Trim(SubSeq(digits, 1, Len(digits) - 1))

RECURSIVE Carry(_, _, _)
\* the digits of a number given by columns that hold more than a digit
Carry(columns, j, carry) ==
    IF j > Len(columns)
    THEN IF carry = 0 THEN <<>>
         ELSE <<carry % Radix>> \o Carry(columns, j, carry \div Radix)
    ELSE <<(columns[j] + carry) % Radix>>
             \o Carry(columns, j + 1, (columns[j] + carry) \div Radix)

\* the digits of a whole number below 2^31
Whole(x) == Trim(Carry(<<x>>, 1, 0))

\* a + b
AddDigits(a, b) ==
    LET n == IF Len(a) >= Len(b) THEN Len(a) ELSE Len(b)
    IN  Trim(Carry([j \in 1 .. n |->
                       (IF j <= Len(a) THEN a[j] ELSE 0)
                           + (IF j <= Len(b) THEN b[j] ELSE 0)], 1, 0))

\* a * b
MulDigits(a, b) ==
    Trim(Carry([c \in 1 .. (Len(a) + Len(b) - 1) |->
                   SumOver(1 .. Len(a),
                           [i \in 1 .. Len(a) |->
                               IF c - i + 1 >= 1 /\ c - i + 1 <= Len(b)
                               THEN a[i] * b[c - i + 1] ELSE 0])], 1, 0))

\* a * 2^s
ShiftLeft(a, s) ==
    Zeros(s \div 14) \o Carry([j \in 1 .. Len(a) |-> a[j] * 2 ^ (s % 14)], 1, 0)

\* a \div 2^s
ShiftRight(a, s) ==
    LET skip == s \div 14
        part == 2 ^ (s % 14)
    IN  IF skip >= Len(a) THEN <<>>
        ELSE Trim([j \in 1 .. (Len(a) - skip) |->
                      (a[j + skip] \div part)
                          + (IF j + skip < Len(a)
                             THEN (a[j + skip + 1] % part) * (Radix \div part)
                             ELSE 0)])

\* the binary digit of a at 2^i
BitAt(a, i) ==
    IF (i \div 14) + 1 > Len(a) THEN 0
    ELSE (a[(i \div 14) + 1] \div 2 ^ (i % 14)) % 2

\* some binary digit of a below 2^i is 1
AnyBelow(a, i) ==
    \E j \in 1 .. Len(a) :
        \/ j <= i \div 14 /\ a[j] # 0
        \/ j = (i \div 14) + 1 /\ a[j] % 2 ^ (i % 14) # 0

\* the number of binary digits of a, a not zero
BitLength(a) ==
    14 * (Len(a) - 1) + Cardinality({k \in 0 .. 13 : 2 ^ k <= a[Len(a)]})

\* the double nearest to m * 2^e: the binary digits beyond the 53rd and
\* those below 2^-1074 are dropped, and the last digit kept goes up when the
\* dropped part is above the half, or is the half and the digit is odd
Rounded(digits, e) ==
    LET m == Trim(digits)
        over == BitLength(m) - 53
        under == 0 - 1074 - e
        drop == IF over >= under /\ over >= 0 THEN over
                ELSE IF under >= 0 THEN under ELSE 0
        up == /\ BitAt(m, drop - 1) = 1
              /\ AnyBelow(m, drop - 1) \/ BitAt(m, drop) = 1
    IN  IF m = <<>> THEN Zero
        ELSE IF drop = 0 THEN [m |-> m, e |-> e]
        ELSE [m |-> IF up THEN AddDigits(ShiftRight(m, drop), <<1>>)
                    ELSE ShiftRight(m, drop),
              e |-> e + drop]

\* the power of two just above a double that is not zero
Top(x) == x.e + BitLength(x.m)

\* x + y; a term more than 64 binary digits below the other leaves it
\* unchanged
Add(x, y) ==
    IF x.m = <<>> THEN y
    ELSE IF y.m = <<>> THEN x
    ELSE IF Top(x) - Top(y) > 64 THEN x
    ELSE IF Top(y) - Top(x) > 64 THEN y
    ELSE LET low == IF x.e <= y.e THEN x.e ELSE y.e
         IN  Rounded(AddDigits(ShiftLeft(x.m, x.e - low), ShiftLeft(y.m, y.e - low)),
                     low)

\* x * y
Mul(x, y) ==
    IF x.m = <<>> \/ y.m = <<>> THEN Zero
    ELSE Rounded(MulDigits(x.m, y.m), x.e + y.e)

RECURSIVE Chunk(_, _, _, _)
\* the next count binary digits of rem / w (rem < w) put below those found,
\* and the remainder after them
Chunk(rem, w, count, found) ==
    IF count = 0 THEN [q |-> found, rem |-> rem]
    ELSE IF 2 * rem >= w THEN Chunk(2 * rem - w, w, count - 1, 2 * found + 1)
    ELSE Chunk(2 * rem, w, count - 1, 2 * found)

RECURSIVE Fraction(_, _, _, _)
\* the next places binary digits of rem / w as digits in base 2^14 put
\* below those found, and the remainder after them
Fraction(rem, w, places, found) ==
    IF places = 0 THEN [m |-> found, rem |-> rem]
    ELSE LET count == IF places % 14 = 0 THEN 14 ELSE places % 14
             chunk == Chunk(rem, w, count, 0)
         IN  Fraction(chunk.rem, w, places - count, <<chunk.q>> \o found)

\* n / w for whole numbers, w > 0: 56 binary digits of the quotient by long
\* division and one more for a remainder, then rounded
Quotient(n, w) ==
    IF n = 0 THEN Zero
    ELSE LET places == 55 - Binade(n, w)
             division == Fraction(n % w, w, places, <<>>)
             digits == AddDigits(ShiftLeft(Whole(n \div w), places), division.m)
         IN  Rounded(AddDigits(ShiftLeft(digits, 1),
                               IF division.rem # 0 THEN <<1>> ELSE <<>>),
                     0 - places - 1)

RECURSIVE DigitsGreater(_, _, _)
\* a > b for two whole numbers of the same length, from digit j down
DigitsGreater(a, b, j) ==
    IF j = 0 THEN FALSE
    ELSE IF a[j] # b[j] THEN a[j] > b[j]
    ELSE DigitsGreater(a, b, j - 1)

\* x > y
Greater(x, y) ==
    IF x.m = <<>> THEN FALSE
    ELSE IF y.m = <<>> THEN TRUE
    ELSE IF Top(x) # Top(y) THEN Top(x) > Top(y)
    ELSE LET low == IF x.e <= y.e THEN x.e ELSE y.e
             a == ShiftLeft(x.m, x.e - low)
         IN  DigitsGreater(a, ShiftLeft(y.m, y.e - low), Len(a))

\* np.exp(-k) for k = 0 .. 745: the double nearest to e^-k as its digits in
\* base 2^14, the least significant first, and the power of two of the
\* lowest binary digit; from k = 709 on the doubles have fewer than 53
\* binary digits
exp_table ==
    <<
       <<0, 0, 0, 1024, -52>>, <<12088, 6323, 13667, 1506, -54>>,
       <<460, 3838, 10922, 1108, -55>>, <<12463, 13114, 6924, 1631, -57>>,
       <<15604, 8324, 5467, 1200, -58>>, <<4982, 53, 5118, 1766, -60>>,
       <<5334, 1103, 9503, 1299, -61>>, <<10639, 12434, 5817, 1912, -63>>,
       <<10157, 4160, 528, 1407, -64>>, <<5210, 5273, 3874, 1035, -65>>,
       <<15515, 5521, 6043, 1523, -67>>, <<10084, 3645, 13634, 1120, -68>>,
       <<15499, 11534, 5315, 1649, -70>>, <<7576, 11872, 8275, 1213, -71>>,
       <<5650, 14016, 11375, 1785, -73>>, <<11320, 2207, 13770, 1313, -74>>,
       <<1483, 11194, 5563, 1933, -76>>, <<10397, 7529, 7729, 1422, -77>>,
       <<8097, 12710, 9768, 1046, -78>>, <<6002, 15537, 1391, 1540, -80>>,
       <<12903, 6093, 2149, 1133, -81>>, <<13292, 886, 6925, 1667, -83>>,
       <<15778, 15429, 13451, 1226, -84>>, <<15025, 4303, 4734, 1805, -86>>,
       <<8842, 16292, 4216, 1328, -87>>, <<814, 4479, 9082, 1954, -89>>,
       <<15938, 7169, 1322, 1438, -90>>, <<16026, 8665, 1321, 1058, -91>>,
       <<5050, 13749, 16129, 1556, -93>>, <<1184, 11182, 9259, 1145, -94>>,
       <<16245, 2737, 11788, 1685, -96>>, <<15290, 2356, 4638, 1240, -97>>,
       <<9320, 7557, 1615, 1825, -99>>, <<7592, 12765, 13639, 1342, -100>>,
       <<10912, 15192, 30, 1976, -102>>, <<12512, 10599, 14105, 1453, -103>>,
       <<8292, 16247, 11322, 1069, -104>>, <<8277, 16169, 1137, 1574, -106>>,
       <<13059, 6840, 2221, 1158, -107>>, <<6968, 12237, 3556, 1704, -109>>,
       <<6692, 9836, 14628, 1253, -110>>, <<2080, 1757, 2058, 1845, -112>>,
       <<14172, 15243, 9298, 1357, -113>>, <<12094, 8144, 11219, 1997, -115>>,
       <<2284, 14429, 13341, 1469, -116>>, <<13629, 13439, 7027, 1081, -117>>,
       <<7550, 11970, 5601, 1591, -119>>, <<7130, 1746, 13827, 1170, -120>>,
       <<437, 14569, 15034, 1722, -122>>, <<3973, 14238, 10681, 1267, -123>>,
       <<2111, 4600, 6101, 1865, -125>>, <<7521, 3306, 7607, 1372, -126>>,
       <<6446, 4821, 9922, 2019, -128>>, <<5301, 4420, 15446, 1485, -129>>,
       <<15368, 15068, 4842, 1093, -130>>, <<8308, 12702, 13170, 1608, -132>>,
       <<7740, 8985, 11333, 1183, -133>>, <<1985, 1406, 13491, 1741, -135>>,
       <<15256, 13090, 9208, 1281, -136>>, <<1357, 8042, 13784, 1885, -138>>,
       <<6234, 10853, 8593, 1387, -139>>, <<10700, 1547, 12566, 2041, -141>>,
       <<6220, 4700, 4066, 1502, -142>>, <<11986, 7310, 4791, 1105, -143>>,
       <<9420, 3207, 7495, 1626, -145>>, <<13080, 13334, 11149, 1196, -146>>,
       <<10731, 3750, 15346, 1760, -148>>, <<86, 8750, 10236, 1295, -149>>,
       <<9252, 11141, 8763, 1906, -151>>, <<14897, 11474, 12287, 1402, -152>>,
       <<7403, 1169, 1405, 1032, -153>>, <<10251, 12286, 12001, 1518, -155>>,
       <<3781, 13272, 6896, 1117, -156>>, <<11262, 7221, 4993, 1644, -158>>,
       <<10308, 4078, 13301, 1209, -159>>, <<3034, 10085, 4253, 1780, -161>>,
       <<16349, 8450, 13792, 1309, -162>>, <<2634, 3754, 7463, 1927, -164>>,
       <<13392, 428, 2335, 1418, -165>>, <<10521, 1300, 6733, 1043, -166>>,
       <<11845, 13532, 6516, 1535, -168>>, <<4049, 11117, 11182, 1129, -169>>,
       <<2975, 5522, 5700, 1662, -171>>, <<15842, 7825, 1429, 1223, -172>>,
       <<10822, 15597, 13018, 1799, -174>>, <<16280, 7978, 3520, 1324, -175>>,
       <<4350, 15763, 9923, 1948, -177>>, <<5661, 11082, 11533, 1433, -178>>,
       <<8190, 2800, 14097, 1054, -179>>, <<7306, 575, 4028, 1552, -181>>,
       <<9322, 16032, 1288, 1142, -182>>, <<10957, 1531, 9651, 1680, -184>>,
       <<9859, 6640, 8328, 1236, -185>>, <<0, 5871, 8912, 1819, -187>>,
       <<12530, 8106, 12216, 1338, -188>>, <<12200, 2471, 16187, 1969, -190>>,
       <<13358, 282, 7146, 1449, -191>>, <<4672, 11275, 7135, 1066, -192>>,
       <<2312, 4166, 4568, 1569, -194>>, <<10685, 14738, 10007, 1154, -195>>,
       <<12125, 5002, 497, 1699, -197>>, <<10856, 3627, 1256, 1250, -198>>,
       <<7857, 6109, 8356, 1839, -200>>, <<8221, 14649, 7140, 1353, -201>>,
       <<7731, 8522, 9910, 1991, -203>>, <<14503, 12256, 5586, 1465, -204>>,
       <<221, 3580, 2255, 1078, -205>>, <<14454, 11814, 8170, 1586, -207>>,
       <<13472, 14688, 4595, 1167, -208>>, <<6978, 15703, 11042, 1717, -210>>,
       <<11846, 6600, 13007, 1263, -211>>, <<15316, 15677, 11389, 1859, -213>>,
       <<2364, 5752, 4706, 1368, -214>>, <<12278, 4139, 7520, 2013, -216>>,
       <<7477, 14830, 6886, 1481, -217>>, <<8721, 9782, 15862, 1089, -218>>,
       <<5389, 623, 14869, 1603, -220>>, <<16312, 11348, 1461, 1180, -221>>,
       <<6849, 7103, 8556, 1736, -223>>, <<7651, 11749, 10840, 1277, -224>>,
       <<12922, 8177, 1668, 1880, -226>>, <<5235, 13865, 4941, 1383, -227>>,
       <<10192, 16283, 9058, 2035, -229>>, <<3864, 14177, 11077, 1497, -230>>,
       <<1324, 14904, 15212, 1101, -231>>, <<4884, 2886, 8313, 1621, -233>>,
       <<15129, 4629, 630, 1193, -234>>, <<1012, 8365, 9458, 1755, -236>>,
       <<15115, 3691, 11167, 1291, -237>>, <<14972, 13443, 11999, 1900, -239>>,
       <<14648, 11113, 7876, 1398, -240>>, <<8967, 15214, 15476, 1028, -241>>,
       <<15805, 5727, 1807, 1514, -243>>, <<5555, 8116, 329, 1114, -244>>,
       <<881, 7854, 4921, 1639, -246>>, <<15819, 15319, 2126, 1206, -247>>,
       <<2083, 6111, 13786, 1774, -249>>, <<4393, 4679, 14014, 1305, -250>>,
       <<5536, 2934, 9656, 1921, -252>>, <<2399, 7658, 13540, 1413, -253>>,
       <<2147, 3517, 3856, 1040, -254>>, <<5198, 7000, 11875, 1530, -256>>,
       <<15909, 15554, 4003, 1126, -257>>, <<5327, 10951, 4728, 1657, -259>>,
       <<6540, 3214, 5977, 1219, -260>>, <<6030, 10033, 5193, 1794, -262>>,
       <<3575, 9113, 3025, 1320, -263>>, <<13140, 4496, 11062, 1942, -265>>,
       <<9291, 2599, 5579, 1429, -266>>, <<11169, 6348, 10649, 1051, -267>>,
       <<7877, 8509, 8546, 1547, -269>>, <<10939, 2061, 9876, 1138, -270>>,
       <<972, 13845, 7769, 1675, -272>>, <<4409, 14621, 12206, 1232, -273>>,
       <<14374, 3813, 102, 1814, -275>>, <<16307, 16367, 10996, 1334, -276>>,
       <<2965, 4144, 16259, 1963, -278>>, <<4795, 423, 407, 1445, -279>>,
       <<6296, 11817, 3110, 1063, -280>>, <<6885, 6599, 8237, 1564, -282>>,
       <<11393, 2302, 1586, 1151, -283>>, <<15048, 8128, 14080, 1693, -285>>,
       <<12854, 2187, 4458, 1246, -286>>, <<4040, 10735, 14934, 1833, -288>>,
       <<14640, 14460, 5188, 1349, -289>>, <<12696, 11670, 8904, 1985, -291>>,
       <<2967, 11057, 14438, 1460, -292>>, <<15635, 12035, 14030, 1074, -293>>,
       <<13743, 3506, 10981, 1581, -295>>, <<15643, 6127, 11926, 1163, -296>>,
       <<8638, 8160, 7312, 1712, -298>>, <<4406, 5175, 15525, 1259, -299>>,
       <<8851, 11835, 577, 1854, -301>>, <<7234, 12875, 2013, 1364, -302>>,
       <<7901, 11581, 5424, 2007, -304>>, <<8773, 779, 14937, 1476, -305>>,
       <<9503, 3165, 10664, 1086, -306>>, <<13751, 7425, 427, 1599, -308>>,
       <<9113, 7770, 8153, 1176, -309>>, <<7891, 1979, 3886, 1731, -311>>,
       <<10965, 2054, 12667, 1273, -312>>, <<1506, 11520, 6222, 1874, -314>>,
       <<2788, 9849, 1500, 1379, -315>>, <<14139, 12325, 5861, 2029, -317>>,
       <<7911, 6967, 1933, 1493, -318>>, <<5688, 1844, 9418, 1098, -319>>,
       <<4840, 16189, 9377, 1616, -321>>, <<15027, 5894, 6676, 1189, -322>>,
       <<2044, 530, 3838, 1750, -324>>, <<10324, 8862, 12294, 1287, -325>>,
       <<2172, 4870, 15525, 1894, -327>>, <<16263, 8813, 3678, 1394, -328>>,
       <<9036, 6806, 13321, 1025, -329>>, <<260, 7086, 8227, 1509, -331>>,
       <<2461, 12464, 10315, 1110, -332>>, <<15407, 950, 5099, 1634, -334>>,
       <<6353, 3645, 7520, 1202, -335>>, <<1635, 4965, 7205, 1769, -337>>,
       <<2289, 13718, 14434, 1301, -338>>, <<4255, 10488, 12141, 1915, -340>>,
       <<3322, 2069, 8577, 1409, -341>>, <<15468, 11439, 1137, 1037, -342>>,
       <<11533, 669, 1083, 1526, -344>>, <<1597, 10832, 13380, 1122, -345>>,
       <<2958, 4556, 4009, 1652, -347>>, <<6702, 8695, 10710, 1215, -348>>,
       <<11278, 6717, 14025, 1788, -350>>, <<12335, 9643, 2731, 1316, -351>>,
       <<12392, 5040, 12496, 1936, -353>>, <<1628, 3607, 16226, 1424, -354>>,
       <<9824, 11303, 7361, 1048, -355>>, <<1339, 9385, 13300, 1542, -357>>,
       <<6777, 9752, 2252, 1135, -358>>, <<10526, 10537, 6143, 1670, -360>>,
       <<3472, 529, 16273, 1228, -361>>, <<15432, 3958, 7952, 1808, -363>>,
       <<6530, 11003, 9980, 1330, -364>>, <<12614, 5256, 246, 1958, -366>>,
       <<3969, 19, 10272, 1440, -367>>, <<304, 9779, 15631, 1059, -368>>,
       <<11838, 11557, 12144, 1559, -370>>, <<13871, 9920, 9723, 1147, -371>>,
       <<7551, 8719, 11537, 1688, -373>>, <<985, 12412, 7849, 1242, -374>>,
       <<10102, 1671, 5408, 1828, -376>>, <<12744, 4404, 3442, 1345, -377>>,
       <<5882, 2472, 8201, 1979, -379>>, <<5700, 16091, 7128, 1456, -380>>,
       <<725, 14240, 9585, 1071, -381>>, <<52, 7772, 14032, 1576, -383>>,
       <<9558, 16355, 3049, 1160, -384>>, <<5183, 11670, 3842, 1707, -386>>,
       <<743, 369, 1851, 1256, -387>>, <<15044, 11724, 6431, 1848, -389>>,
       <<5874, 14290, 15912, 1359, -390>>, <<6881, 11863, 3634, 2001, -392>>,
       <<13622, 174, 6828, 1472, -393>>, <<11003, 3328, 5631, 1083, -394>>,
       <<9321, 4551, 2613, 1594, -396>>, <<11146, 5676, 15024, 1172, -397>>,
       <<3767, 5621, 15863, 1725, -399>>, <<7206, 7076, 14687, 1269, -400>>,
       <<1127, 3798, 11062, 1868, -402>>, <<15949, 4688, 14653, 1374, -403>>,
       <<8190, 6991, 2973, 2023, -405>>, <<25, 4471, 9400, 1488, -406>>,
       <<5503, 8919, 3790, 1095, -407>>, <<8287, 14424, 10688, 1611, -409>>,
       <<235, 8074, 12903, 1185, -410>>, <<2037, 16072, 14867, 1744, -412>>,
       <<10019, 14457, 13617, 1283, -413>>, <<11483, 3760, 2955, 1889, -415>>,
       <<471, 10344, 16076, 1389, -416>>, <<8333, 1806, 6260, 2045, -418>>,
       <<15015, 4867, 14877, 1504, -419>>, <<11277, 1475, 4087, 1107, -420>>,
       <<3740, 6837, 5525, 1629, -422>>, <<12461, 9051, 13096, 1198, -423>>,
       <<2606, 9559, 893, 1764, -425>>, <<8358, 9271, 15053, 1297, -426>>,
       <<1494, 11830, 14918, 1909, -428>>, <<5386, 5698, 3828, 1405, -429>>,
       <<2765, 789, 14961, 1033, -430>>, <<14866, 15689, 6906, 1521, -432>>,
       <<14124, 4783, 6544, 1119, -433>>, <<1461, 6525, 3541, 1647, -435>>,
       <<6570, 15013, 15628, 1211, -436>>, <<13894, 8414, 6745, 1783, -438>>,
       <<11932, 15933, 2637, 1312, -439>>, <<3957, 2649, 14225, 1930, -441>>,
       <<8601, 3255, 10706, 1420, -442>>, <<11441, 9682, 4233, 1045, -443>>,
       <<12731, 7839, 1905, 1538, -445>>, <<3864, 14078, 11185, 1131, -446>>,
       <<11818, 11659, 4771, 1665, -448>>, <<4453, 4159, 4142, 1225, -449>>,
       <<15879, 8920, 16077, 1802, -451>>, <<2377, 14650, 9166, 1326, -452>>,
       <<13369, 7285, 915, 1952, -454>>, <<3192, 4486, 3972, 1436, -455>>,
       <<642, 13474, 11929, 1056, -456>>, <<11156, 7165, 16289, 1554, -458>>,
       <<11453, 12471, 1651, 1144, -459>>, <<1932, 10301, 9251, 1683, -461>>,
       <<10712, 8456, 11430, 1238, -462>>, <<4482, 14150, 12543, 1822, -464>>,
       <<2595, 7007, 1900, 1341, -465>>, <<15481, 15007, 7798, 1973, -467>>,
       <<9144, 16270, 40, 1452, -468>>, <<9503, 2033, 5304, 1068, -469>>,
       <<11441, 12604, 939, 1572, -471>>, <<6957, 3770, 10734, 1156, -472>>,
       <<7530, 13234, 632, 1702, -474>>, <<6766, 15386, 4751, 1252, -475>>,
       <<58, 1273, 12567, 1842, -477>>, <<8398, 16026, 13634, 1355, -478>>,
       <<14818, 6132, 2149, 1995, -480>>, <<13723, 1805, 15327, 1467, -481>>,
       <<9455, 2023, 763, 1080, -482>>, <<1655, 12631, 5041, 1589, -484>>,
       <<2551, 12521, 5689, 1169, -485>>, <<11421, 4887, 11719, 1720, -487>>,
       <<3218, 762, 517, 1266, -488>>, <<3747, 3552, 16186, 1862, -490>>,
       <<11910, 4300, 11631, 1370, -491>>, <<11157, 1260, 393, 2017, -493>>,
       <<4440, 11738, 709, 1484, -494>>, <<5053, 11406, 14713, 1091, -495>>,
       <<5363, 1705, 12245, 1606, -497>>, <<173, 2139, 2927, 1182, -498>>,
       <<14704, 8937, 9779, 1739, -500>>, <<3111, 10702, 15136, 1279, -501>>,
       <<133, 12116, 7056, 1883, -503>>, <<2184, 5121, 12302, 1385, -504>>,
       <<7068, 12204, 2572, 2039, -506>>, <<12804, 3999, 5372, 1500, -507>>,
       <<11677, 15872, 14410, 1103, -508>>, <<10957, 13107, 6199, 1624, -510>>,
       <<13306, 6027, 2471, 1195, -511>>, <<5933, 6462, 11234, 1758, -513>>,
       <<7274, 14225, 15869, 1293, -514>>, <<6372, 8802, 1602, 1904, -516>>,
       <<8653, 7846, 15677, 1400, -517>>, <<15133, 12844, 12557, 1030, -518>>,
       <<5147, 7709, 12962, 1516, -520>>, <<8492, 5271, 16262, 1115, -521>>,
       <<11109, 4316, 3324, 1642, -523>>, <<15540, 12940, 4347, 1208, -524>>,
       <<8603, 1546, 16121, 1777, -526>>, <<12673, 1608, 2744, 1308, -527>>,
       <<4081, 15389, 16247, 1924, -529>>, <<7312, 7112, 5402, 1416, -530>>,
       <<11752, 9911, 1264, 1042, -531>>, <<13842, 8546, 7128, 1533, -533>>,
       <<14202, 6422, 3907, 1128, -534>>, <<5000, 4532, 3653, 1660, -536>>,
       <<12593, 16182, 8581, 1221, -537>>, <<10494, 4972, 8093, 1797, -539>>,
       <<3905, 824, 8555, 1322, -540>>, <<16302, 11752, 1881, 1946, -542>>,
       <<1035, 2889, 14275, 1431, -543>>, <<14070, 14856, 8388, 1053, -544>>,
       <<1154, 14352, 4286, 1550, -546>>, <<7170, 1244, 10138, 1140, -547>>,
       <<12627, 55, 7222, 1678, -549>>, <<8533, 13658, 15199, 1234, -550>>,
       <<4384, 1525, 3573, 1817, -552>>, <<3447, 12057, 562, 1337, -553>>,
       <<2004, 1484, 7697, 1967, -555>>, <<12002, 539, 9558, 1447, -556>>,
       <<11289, 50, 1185, 1065, -557>>, <<12881, 6035, 4470, 1567, -559>>,
       <<1291, 8718, 2210, 1153, -560>>, <<3006, 16278, 14065, 1696, -562>>,
       <<13747, 7924, 7843, 1248, -563>>, <<9206, 15601, 2598, 1837, -565>>,
       <<559, 7761, 11563, 1351, -566>>, <<10645, 11967, 967, 1989, -568>>,
       <<2723, 10880, 7665, 1463, -569>>, <<2786, 7411, 12443, 1076, -570>>,
       <<15711, 3179, 7712, 1584, -572>>, <<15553, 3016, 12917, 1165, -573>>,
       <<14934, 3061, 7837, 1715, -575>>, <<12825, 6240, 2923, 1262, -576>>,
       <<6258, 12982, 5209, 1857, -578>>, <<4701, 14632, 8817, 1366, -579>>,
       <<7138, 12544, 14503, 2010, -581>>, <<4322, 1086, 8629, 1479, -582>>,
       <<14825, 991, 9419, 1088, -583>>, <<8245, 14950, 14045, 1601, -585>>,
       <<2924, 11857, 9514, 1178, -586>>, <<11699, 15034, 4955, 1734, -588>>,
       <<7168, 4235, 466, 1276, -589>>, <<3604, 15596, 11444, 1877, -591>>,
       <<10579, 15362, 8738, 1381, -592>>, <<6341, 12897, 15579, 2032, -594>>,
       <<9799, 9442, 12479, 1495, -595>>, <<10489, 14482, 8518, 1100, -596>>,
       <<12587, 7394, 7121, 1619, -598>>, <<805, 1858, 8412, 1191, -599>>,
       <<10535, 15052, 5458, 1753, -601>>, <<1329, 2344, 499, 1290, -602>>,
       <<15822, 3291, 4960, 1898, -604>>, <<6010, 14231, 11355, 1396, -605>>,
       <<4670, 6991, 10311, 1027, -606>>, <<9260, 14331, 2864, 1512, -608>>,
       <<4235, 3798, 9766, 1112, -609>>, <<12185, 1811, 3357, 1637, -611>>,
       <<11606, 9662, 9634, 1204, -612>>, <<11842, 5343, 9383, 1772, -614>>,
       <<15121, 5860, 3049, 1304, -615>>, <<8398, 12220, 2179, 1919, -617>>,
       <<6312, 4394, 314, 1412, -618>>, <<10103, 4056, 14838, 1038, -619>>,
       <<3352, 16215, 12584, 1528, -621>>, <<4297, 10964, 13184, 1124, -622>>,
       <<16242, 9282, 2787, 1655, -624>>, <<6780, 10915, 13207, 1217, -625>>,
       <<6818, 11196, 382, 1792, -627>>, <<6898, 8608, 8144, 1318, -628>>,
       <<3533, 3841, 3144, 1940, -630>>, <<671, 710, 8412, 1427, -631>>,
       <<6164, 5906, 5008, 1050, -632>>, <<11445, 4929, 8904, 1545, -634>>,
       <<12431, 322, 2414, 1137, -635>>, <<5111, 14356, 5447, 1673, -637>>,
       <<5235, 2231, 2773, 1231, -638>>, <<14513, 15496, 11262, 1811, -640>>,
       <<3034, 9375, 15812, 1332, -641>>, <<3445, 12457, 7894, 1961, -643>>,
       <<7176, 7029, 2911, 1443, -644>>, <<4157, 182, 13612, 1061, -645>>,
       <<9116, 8900, 8239, 1562, -647>>, <<15537, 6034, 10246, 1149, -648>>,
       <<2525, 7882, 11373, 1691, -650>>, <<13253, 1246, 11125, 1244, -651>>,
       <<975, 7955, 9294, 1831, -653>>, <<7718, 11970, 9697, 1347, -654>>,
       <<9850, 14223, 88, 1983, -656>>, <<7285, 16255, 226, 1459, -657>>,
       <<5747, 11293, 7903, 1073, -658>>, <<8081, 13286, 10623, 1579, -660>>,
       <<2027, 1056, 3938, 1162, -661>>, <<12681, 3466, 4216, 1710, -663>>,
       <<6212, 13902, 5521, 1258, -664>>, <<8324, 1563, 10900, 1851, -666>>,
       <<4457, 8895, 6212, 1362, -667>>, <<8713, 9148, 12536, 2004, -669>>,
       <<5580, 10402, 389, 1475, -670>>, <<1095, 2156, 4290, 1085, -671>>,
       <<136, 9196, 16090, 1596, -673>>, <<3020, 11871, 16281, 1174, -674>>,
       <<2521, 4774, 396, 1729, -676>>, <<1390, 1726, 2374, 1272, -677>>,
       <<2374, 16289, 16118, 1871, -679>>, <<264, 14166, 5385, 1377, -680>>,
       <<2332, 4791, 12512, 2026, -682>>, <<1945, 9808, 3430, 1491, -683>>,
       <<7644, 5310, 2794, 1097, -684>>, <<11029, 10136, 8289, 1614, -686>>,
       <<11015, 3854, 14534, 1187, -687>>, <<11271, 5596, 16334, 1747, -689>>,
       <<8936, 12957, 1708, 1286, -690>>, <<12392, 13613, 8606, 1892, -692>>,
       <<14313, 14218, 7246, 1392, -693>>, <<3509, 8172, 8221, 1024, -694>>,
       <<7348, 7659, 9381, 1507, -696>>, <<2204, 8277, 3439, 1109, -697>>,
       <<2221, 2929, 3639, 1632, -699>>, <<5498, 12391, 15104, 1200, -700>>,
       <<10546, 6310, 2915, 1767, -702>>, <<8580, 2376, 3553, 1300, -703>>,
       <<6089, 11299, 4787, 1913, -705>>, <<11188, 734, 11825, 1407, -706>>,
       <<8252, 591, 12186, 1035, -707>>, <<5055, 2821, 1890, 1524, -709>>,
       <<8544, 2754, 6249, 1121, -710>>, <<13890, 13309, 2173, 1650, -712>>,
       <<3670, 11853, 1634, 1214, -713>>, <<6681, 13948, 9328, 1786, -715>>,
       <<1326, 11580, 7934, 1314, -716>>, <<7898, 1546, 4702, 1934, -718>>,
       <<8206, 3464, 2766, 1423, -719>>, <<14790, 11393, 1787, 1047, -720>>,
       <<4838, 16283, 13756, 1540, -722>>, <<12925, 1048, 11247, 1133, -723>>,
       <<8638, 7694, 3928, 1668, -725>>, <<5307, 13953, 6917, 1227, -726>>,
       <<8586, 9503, 2844, 1806, -728>>, <<5177, 5196, 14881, 1328, -729>>,
       <<1935, 225, 8391, 1955, -731>>, <<12854, 8367, 12868, 1438, -732>>,
       <<13707, 10727, 9816, 1058, -733>>, <<10084, 9302, 12246, 1557, -735>>,
       <<2555, 3352, 2073, 1146, -736>>, <<5853, 7934, 8938, 1686, -738>>,
       <<12084, 2259, 14596, 1240, -739>>, <<8740, 13540, 16268, 1825, -741>>,
       <<11354, 2010, 8037, 1343, -742>>, <<13021, 14186, 15895, 1976, -744>>,
       <<3466, 6823, 9394, 1454, -745>>, <<15896, 5496, 3527, 1070, -746>>,
       <<12614, 14539, 13775, 1574, -748>>, <<12379, 14173, 11519, 1158, -749>>,
       <<15342, 9464, 855, 1705, -751>>, <<6766, 14166, 8311, 1254, -752>>,
       <<10230, 4349, 488, 1846, -754>>, <<15832, 9484, 3814, 1358, -755>>,
       <<5465, 8577, 10874, 1998, -757>>, <<2388, 12072, 8758, 1470, -758>>,
       <<15735, 6635, 15710, 1081, -759>>, <<15330, 5050, 1994, 1592, -761>>,
       <<70, 9619, 6843, 1171, -762>>, <<16123, 14143, 12483, 1723, -764>>,
       <<7056, 9872, 4475, 1268, -765>>, <<1661, 16326, 4693, 1866, -767>>,
       <<11590, 7428, 2242, 1373, -768>>, <<9371, 5222, 9753, 2020, -770>>,
       <<12381, 10126, 10992, 1486, -771>>, <<11285, 12770, 13620, 1093, -772>>,
       <<909, 9041, 9703, 1609, -774>>, <<8061, 2973, 4453, 1184, -775>>,
       <<13291, 13937, 11091, 1742, -777>>, <<13980, 3505, 3114, 1282, -778>>,
       <<11190, 8974, 12541, 1886, -780>>, <<7232, 13591, 3349, 1388, -781>>,
       <<15877, 790, 12575, 2042, -783>>, <<12979, 8982, 16127, 1502, -784>>,
       <<16048, 10262, 13665, 1105, -785>>, <<10495, 11625, 4169, 1627, -787>>,
       <<6514, 11983, 4373, 1197, -788>>, <<9250, 7376, 13100, 1761, -790>>,
       <<2353, 14024, 4254, 1296, -791>>, <<10419, 14442, 7686, 1907, -793>>,
       <<6545, 1799, 7166, 1403, -794>>, <<9157, 8014, 9691, 1032, -795>>,
       <<548, 5913, 7811, 1519, -797>>, <<13235, 6023, 15868, 1117, -798>>,
       <<4852, 4049, 1811, 1645, -800>>, <<7124, 9752, 6630, 1210, -801>>,
       <<4127, 16010, 2162, 1781, -803>>, <<2596, 16115, 7924, 1310, -804>>,
       <<12394, 6525, 6554, 1928, -806>>, <<14648, 316, 13721, 1418, -807>>,
       <<1423, 6963, 15110, 1043, -808>>, <<6622, 3913, 2460, 1536, -810>>,
       <<79, 11175, 3868, 1130, -811>>, <<16000, 136, 2663, 1663, -813>>,
       <<5518, 6711, 11249, 1223, -814>>, <<9149, 2561, 11085, 1800, -816>>,
       <<11850, 5786, 14152, 1324, -817>>, <<3385, 15435, 9184, 1949, -819>>,
       <<5302, 9984, 6660, 1434, -820>>, <<9910, 7243, 6182, 1055, -821>>,
       <<12718, 11765, 106, 1553, -823>>, <<7597, 8327, 10458, 1142, -824>>,
       <<16032, 3593, 6760, 1681, -826>>, <<14449, 1515, 1872, 1237, -827>>,
       <<7565, 2071, 7137, 1820, -829>>, <<13039, 420, 6581, 1339, -830>>,
       <<3544, 13189, 15619, 1970, -832>>, <<13336, 4276, 2399, 1450, -833>>,
       <<12354, 14641, 15697, 1066, -834>>, <<7513, 11333, 783, 1570, -836>>,
       <<13971, 779, 2894, 1155, -837>>, <<11151, 8074, 14138, 1699, -839>>,
       <<7697, 13865, 11292, 1250, -840>>, <<10729, 7285, 6741, 1840, -842>>,
       <<3649, 6060, 1623, 1354, -843>>, <<10803, 11997, 9516, 1992, -845>>,
       <<8239, 11283, 967, 1466, -846>>, <<14734, 6193, 10911, 1078, -847>>,
       <<6286, 6777, 4524, 1587, -849>>, <<13787, 12565, 13967, 1167, -850>>,
       <<600, 13636, 8449, 1718, -852>>, <<4126, 2634, 6770, 1264, -853>>,
       <<12869, 1497, 9937, 1860, -855>>, <<1608, 1080, 15692, 1368, -856>>,
       <<8428, 15191, 7301, 2014, -858>>, <<7793, 15463, 2396, 1482, -859>>,
       <<3728, 12151, 8229, 1090, -860>>, <<16359, 8236, 11362, 1604, -862>>,
       <<13838, 6581, 10936, 1180, -863>>, <<13632, 10423, 6114, 1737, -865>>,
       <<13479, 13378, 4714, 1278, -866>>, <<8541, 7777, 379, 1881, -868>>,
       <<11945, 1779, 16048, 1383, -869>>, <<3584, 921, 9018, 2036, -871>>,
       <<5861, 6858, 6718, 1498, -872>>, <<5393, 1336, 7676, 1102, -873>>,
       <<14211, 15511, 4947, 1622, -875>>, <<4746, 15707, 10208, 1193, -876>>,
       <<11652, 11511, 7169, 1756, -878>>, <<7853, 14550, 5153, 1292, -879>>,
       <<7373, 7127, 10876, 1901, -881>>, <<3525, 13287, 2720, 1399, -882>>,
       <<15785, 2079, 7354, 1029, -883>>, <<9386, 13921, 13963, 1514, -885>>,
       <<4410, 12260, 9273, 1114, -886>>, <<16301, 1743, 1699, 1640, -888>>,
       <<6799, 11781, 11810, 1206, -889>>, <<16112, 3820, 11652, 1775, -891>>,
       <<866, 12236, 8114, 1306, -892>>, <<13474, 4096, 8700, 1922, -894>>,
       <<10640, 13232, 8507, 1414, -895>>, <<13778, 1049, 12208, 1040, -896>>,
       <<4471, 5276, 7781, 1531, -898>>, <<2506, 5712, 13046, 1126, -899>>,
       <<14359, 11788, 1650, 1658, -901>>, <<9873, 3956, 15767, 1219, -902>>,
       <<3569, 13729, 3215, 1795, -904>>, <<5264, 1059, 13625, 1320, -905>>,
       <<2452, 10476, 10275, 1943, -907>>, <<15503, 957, 671, 1430, -908>>,
       <<4185, 14462, 2708, 1052, -909>>, <<15525, 4465, 4587, 1548, -911>>,
       <<3136, 12261, 2633, 1139, -912>>, <<4657, 14827, 4837, 1676, -914>>,
       <<4138, 5980, 5720, 1233, -915>>, <<10392, 8839, 14666, 1814, -917>>,
       <<113, 13387, 5328, 1335, -918>>, <<10850, 12608, 15643, 1964, -920>>,
       <<4984, 13959, 12008, 1445, -921>>, <<3718, 14220, 11646, 1063, -922>>,
       <<11814, 8097, 4414, 1565, -924>>, <<4466, 1231, 10828, 1151, -925>>,
       <<13074, 2737, 11296, 1694, -927>>, <<3355, 3477, 14464, 1246, -928>>,
       <<4911, 12743, 13274, 1834, -930>>, <<6018, 4695, 16022, 1349, -931>>,
       <<10500, 4238, 8462, 1986, -933>>, <<5091, 13258, 9783, 1461, -934>>,
       <<4398, 9001, 6276, 1075, -935>>, <<5624, 2290, 7296, 1582, -937>>,
       <<710, 11820, 4885, 1164, -938>>, <<1418, 6550, 4677, 1713, -940>>,
       <<11691, 3152, 9257, 1260, -941>>, <<2274, 6790, 15463, 1854, -943>>,
       <<6307, 1081, 12966, 1364, -944>>, <<10315, 2976, 5157, 2008, -946>>,
       <<11377, 14533, 10410, 1477, -947>>, <<5730, 11533, 3004, 1087, -948>>,
       <<14466, 11890, 13265, 1599, -950>>, <<8325, 5690, 1215, 1177, -951>>,
       <<15576, 14594, 1401, 1732, -953>>, <<16098, 75, 6510, 1274, -954>>,
       <<12572, 12084, 4887, 1875, -956>>, <<9217, 1014, 12573, 1379, -957>>,
       <<8828, 1229, 5771, 2030, -959>>, <<12026, 6261, 13921, 1493, -960>>,
       <<5628, 5871, 1854, 1099, -961>>, <<2153, 2236, 5973, 1617, -963>>,
       <<2461, 14475, 16225, 1189, -964>>, <<2190, 5343, 1506, 1751, -966>>,
       <<4325, 10500, 6249, 1288, -967>>, <<2591, 7643, 14355, 1895, -969>>,
       <<5414, 8161, 14872, 1394, -970>>, <<13523, 7717, 5173, 1026, -971>>,
       <<5404, 15313, 3962, 1510, -973>>, <<15714, 12977, 2848, 1111, -974>>,
       <<11846, 10290, 1836, 1635, -976>>, <<9514, 8752, 790, 1203, -977>>,
       <<14901, 13012, 5027, 1770, -979>>, <<8689, 6379, 8503, 1302, -980>>,
       <<2430, 12390, 11138, 1916, -982>>, <<1197, 15058, 3509, 1410, -983>>,
       <<4376, 2114, 9464, 1037, -984>>, <<12205, 8711, 13335, 1526, -986>>,
       <<2775, 8849, 6011, 1123, -987>>, <<16090, 13641, 890, 1653, -989>>,
       <<11816, 12784, 4086, 1216, -990>>, <<7476, 12954, 12003, 1789, -992>>,
       <<11859, 13725, 13298, 1316, -993>>, <<13048, 3317, 11662, 1937, -995>>,
       <<12802, 3168, 11283, 1425, -996>>, <<15411, 7988, 15779, 1048, -997>>,
       <<405, 8383, 9303, 1543, -999>>, <<2235, 6480, 11366, 1135, -1000>>,
       <<8230, 12487, 3170, 1671, -1002>>, <<8631, 6262, 9756, 1229, -1003>>,
       <<395, 3643, 6088, 1809, -1005>>, <<9670, 14358, 4279, 1331, -1006>>,
       <<9828, 13868, 15966, 1958, -1008>>, <<5531, 8479, 5454, 1441, -1009>>,
       <<10440, 12517, 7757, 1060, -1010>>, <<1644, 9299, 8283, 1560, -1012>>,
       <<10490, 6759, 2553, 1148, -1013>>, <<7687, 13319, 8711, 1689, -1015>>,
       <<4159, 6276, 1441, 1243, -1016>>, <<14834, 6752, 3703, 1829, -1018>>,
       <<1691, 11496, 14242, 1345, -1019>>, <<9531, 2943, 7710, 1980, -1021>>,
       <<7202, 6868, 2438, 1457, -1022>>, <<7332, 6870, 1805, 1072, -1023>>,
       <<9597, 12309, 10308, 1577, -1025>>, <<302, 14901, 12364, 1160, -1026>>,
       <<11968, 12609, 1165, 1708, -1028>>, <<4590, 1830, 11936, 1256, -1029>>,
       <<3557, 1696, 4888, 1849, -1031>>, <<7966, 13425, 10447, 1360, -1032>>,
       <<4196, 2439, 3318, 2002, -1034>>, <<2817, 12471, 2265, 1473, -1035>>,
       <<9690, 2639, 14329, 1083, -1036>>, <<4484, 7822, 15412, 1594, -1038>>,
       <<10144, 7721, 8057, 1173, -1039>>, <<10255, 13263, 13336, 1726, -1041>>,
       <<7902, 3046, 8499, 1270, -1042>>, <<8256, 7618, 9681, 1869, -1044>>,
       <<13725, 790, 9308, 1375, -1045>>, <<7894, 2641, 2833, 2024, -1047>>,
       <<3783, 12203, 4967, 1489, -1048>>, <<11945, 15499, 12583, 1095, -1049>>,
       <<5573, 8636, 7244, 1612, -1051>>, <<12719, 15610, 6039, 1186, -1052>>,
       <<9542, 8306, 12493, 1745, -1054>>, <<2893, 8448, 7541, 1284, -1055>>,
       <<2788, 1555, 1739, 1890, -1057>>, <<6018, 8569, 10852, 1390, -1058>>,
       <<3515, 1460, 6298, 2046, -1060>>, <<13260, 14973, 10575, 1505, -1061>>,
       <<12415, 16100, 12976, 1107, -1062>>, <<4326, 856, 2223, 1630, -1064>>,
       <<5084, 7890, 6337, 1199, -1065>>, <<7933, 13723, 15056, 1764, -1067>>,
       <<10335, 5012, 9090, 1298, -1068>>, <<12313, 428, 13869, 1910, -1070>>,
       <<4069, 11440, 15110, 1405, -1071>>, <<9560, 2256, 6878, 1034, -1072>>,
       <<2475, 2595, 2738, 1522, -1074>>, <<9016, 14208, 15957, 559, -1074>>,
       <<13251, 13474, 47, 206, -1074>>, <<15935, 15831, 12848, 75, -1074>>,
       <<13012, 2094, 14409, 27, -1074>>, <<12307, 14983, 4198, 10, -1074>>,
       <<6369, 1015, 12666, 3, -1074>>, <<10274, 9733, 6357, 1, -1074>>,
       <<2538, 2702, 8366, 0, -1074>>, <<7146, 12125, 3077, 0, -1074>>,
       <<15105, 3887, 1132, 0, -1074>>, <<8251, 8631, 416, 0, -1074>>,
       <<7317, 3795, 153, 0, -1074>>, <<12971, 6074, 56, 0, -1074>>,
       <<10646, 12085, 20, 0, -1074>>, <<13064, 10304, 7, 0, -1074>>,
       <<4595, 13214, 2, 0, -1074>>, <<15329, 531, 1, 0, -1074>>,
       <<409, 6223, 0, 0, -1074>>, <<5291, 2289, 0, 0, -1074>>,
       <<3192, 842, 0, 0, -1074>>, <<13536, 309, 0, 0, -1074>>,
       <<16035, 113, 0, 0, -1074>>, <<15244, 41, 0, 0, -1074>>,
       <<6969, 15, 0, 0, -1074>>, <<11054, 5, 0, 0, -1074>>,
       <<1435, 2, 0, 0, -1074>>, <<12583, 0, 0, 0, -1074>>,
       <<4629, 0, 0, 0, -1074>>, <<1703, 0, 0, 0, -1074>>,
       <<626, 0, 0, 0, -1074>>, <<230, 0, 0, 0, -1074>>,
       <<85, 0, 0, 0, -1074>>, <<31, 0, 0, 0, -1074>>,
       <<11, 0, 0, 0, -1074>>, <<4, 0, 0, 0, -1074>>,
       <<2, 0, 0, 0, -1074>>, <<1, 0, 0, 0, -1074>>
    >>

\* np.exp(-k) for a whole number k = phi * distance; 0.0 from k = 746 on
ExpDouble(k) ==
    IF k >= Len(exp_table) THEN Zero
    ELSE [m |-> Trim(SubSeq(exp_table[k + 1], 1, 4)), e |-> exp_table[k + 1][5]]

RECURSIVE Sequentially(_, _, _)
\* res += a[j] for j from the given one to the last
Sequentially(a, j, res) ==
    IF j > Len(a) THEN res
    ELSE Sequentially(a, j + 1, Add(res, a[j]))

RECURSIVE Lane(_, _, _, _)
\* r[j] += a[i + j] for the blocks of eight up to last
Lane(a, j, last, res) ==
    IF j > last THEN res
    ELSE Lane(a, j + 8, last, Add(res, a[j]))

RECURSIVE pairwise_sum(_)
\* np.sum of a contiguous array of doubles: one after the other below eight
\* elements, in eight lanes added in pairs up to 128 elements and the rest
\* one after the other, in two halves above
pairwise_sum(a) ==
    LET n == Len(a)
        full == n - (n % 8)
        r == [j \in 1 .. 8 |-> Lane(a, j + 8, full, a[j])]
        half == (n \div 2) - ((n \div 2) % 8)
    IN  IF n < 8 THEN Sequentially(a, 1, Zero)
        ELSE IF n <= 128
        THEN Sequentially(a, full + 1,
                 Add(Add(Add(r[1], r[2]), Add(r[3], r[4])),
                     Add(Add(r[5], r[6]), Add(r[7], r[8]))))
        ELSE Add(pairwise_sum(SubSeq(a, 1, half)),
                 pairwise_sum(SubSeq(a, half + 1, n)))

(***************************************************************************)
(* LabelSimilarity.                                                         *)
(***************************************************************************)
\* squared distance of two cells (pdist, before the square root)
SquaredDist(a, b) == (a[1] - b[1]) * (a[1] - b[1]) + (a[2] - b[2]) * (a[2] - b[2])

\* the distance of two cells of the one-row grid
Dist(a, b) == IF a[2] >= b[2] THEN a[2] - b[2] ELSE b[2] - a[2]

\* the similarity measure, as what it is computed from: the precipitation
\* of the two storms cell by cell, the two sums that turn it into weights,
\* and phi; a sum of zero is the nan of the 0/0 weights
similarity(curr_label_locs, prev_storm_locs, curr_raw_data, prev_raw_data, decay) ==
    LET curr_precip_sum == PrecipSum(curr_label_locs, curr_raw_data)
        prev_precip_sum == PrecipSum(prev_storm_locs, prev_raw_data)
    IN  [curr |-> [cell \in Cells |->
                      IF cell \in curr_label_locs THEN curr_raw_data[cell] ELSE 0],
         prev |-> [cell \in Cells |->
                      IF cell \in prev_storm_locs THEN prev_raw_data[cell] ELSE 0],
         curr_precip_sum |-> curr_precip_sum,
         prev_precip_sum |-> prev_precip_sum,
         decay |-> decay]

\* np.argwhere of a weighting: the cells of non-zero weight
Coors(weights) == {cell \in Cells : weights[cell] # 0}

\* np.unique of the merged coordinates: the cells of either storm, ascending
Union(measure) ==
    LET columns == SortedSeq({cell[2] : cell \in Coors(measure.curr) \cup Coors(measure.prev)})
    IN  [j \in 1 .. Len(columns) |-> <<0, columns[j]>>]

\* element_wise_similarity, row after row: exp(-phi * distance) times the
\* product of the weight of a cell in the current storm and the weight of a
\* cell in the previous one, each a rounded double
element_wise_similarity(measure) ==
    LET union == Union(measure)
        n == Len(union)
        curr_union_weights ==
            [j \in 1 .. n |-> Quotient(measure.curr[union[j]], measure.curr_precip_sum)]
        prev_union_weights ==
            [j \in 1 .. n |-> Quotient(measure.prev[union[j]], measure.prev_precip_sum)]
    IN  [x \in 1 .. (n * n) |->
            Mul(ExpDouble(measure.decay * Dist(union[((x - 1) \div n) + 1],
                                               union[((x - 1) % n) + 1])),
                Mul(curr_union_weights[((x - 1) \div n) + 1],
                    prev_union_weights[((x - 1) % n) + 1]))]

\* mutant: the terms are added without any rounding and their sum is rounded
\* once, as math.fsum does
similarity_measure_summed_exactly(measure) ==
    LET a == element_wise_similarity(measure)
        live == {x \in DOMAIN a : a[x].m # <<>>}
        low == SetMin({a[x].e : x \in live})
        aligned == [x \in live |-> ShiftLeft(a[x].m, a[x].e - low)]
        width == SetMax({Len(aligned[x]) : x \in live})
    IN  IF live = {} THEN Zero
        ELSE Rounded(Carry([j \in 1 .. width |->
                               SumOver(live, [x \in live |->
                                   IF j <= Len(aligned[x]) THEN aligned[x][j] ELSE 0])],
                           1, 0),
                     low)

\* similarity_measure, the double that similarity() returns when neither sum
\* is zero
similarity_measure(measure) == pairwise_sum(element_wise_similarity(measure))

\* similarity() has not been called
NotCalled == [kind |-> "none", double |-> Zero]

\* what similarity() returns: nan when a sum is zero (the weights are 0/0),
\* else the double similarity_measure
Returned(measure) ==
    IF measure.curr_precip_sum = 0 \/ measure.prev_precip_sum = 0
    THEN [kind |-> "nan", double |-> Zero]
    ELSE [kind |-> "number", double |-> similarity_measure(measure)]

\* similarity_measure > threshold / 1000 on the doubles
AboveInDoubles(measure, threshold) ==
    Greater(similarity_measure(measure), Quotient(threshold, 1000))

\* the measure without any rounding is the sum of coef[k] * e^-k over den,
\* k the exponents phi * distance of the pairs of a cell of the one storm
\* and a cell of the other
Exponents(pairs, decay) == {decay * Dist(p[1], p[2]) : p \in pairs}

\* the sum of the products of the two cell values, pair by pair, gathered by
\* exponent
Coefficients(measure) ==
    LET pairs == Coors(measure.curr) \X Coors(measure.prev)
        product == [p \in pairs |-> measure.curr[p[1]] * measure.prev[p[2]]]
    IN  [k \in Exponents(pairs, measure.decay) |->
            SumOver({p \in pairs : measure.decay * Dist(p[1], p[2]) = k}, product)]

\* the product of the two sums
Denominator(measure) == measure.curr_precip_sum * measure.prev_precip_sum

\* e^-k for a whole number k: the whole part and the first 18 decimals in
\* six groups of three, cut off after the last
ExpNeg(k) ==
    CASE k = 0 -> <<1, 0, 0, 0, 0, 0, 0>>
      [] k = 1 -> <<0, 367, 879, 441, 171, 442, 321>>
      [] k = 2 -> <<0, 135, 335, 283, 236, 612, 691>>
      [] k = 3 -> <<0, 49, 787, 68, 367, 863, 942>>
      [] k = 4 -> <<0, 18, 315, 638, 888, 734, 180>>
      [] k = 5 -> <<0, 6, 737, 946, 999, 85, 467>>
      [] k = 6 -> <<0, 2, 478, 752, 176, 666, 358>>
      [] k = 7 -> <<0, 0, 911, 881, 965, 554, 516>>
      [] k = 8 -> <<0, 0, 335, 462, 627, 902, 511>>
      [] k = 9 -> <<0, 0, 123, 409, 804, 86, 679>>
      [] k = 10 -> <<0, 0, 45, 399, 929, 762, 484>>
      [] k = 11 -> <<0, 0, 16, 701, 700, 790, 245>>
      [] k = 12 -> <<0, 0, 6, 144, 212, 353, 328>>
      [] k = 13 -> <<0, 0, 2, 260, 329, 406, 981>>
      [] k = 14 -> <<0, 0, 0, 831, 528, 719, 103>>
      [] k = 15 -> <<0, 0, 0, 305, 902, 320, 501>>
      [] k = 16 -> <<0, 0, 0, 112, 535, 174, 719>>
      [] k = 17 -> <<0, 0, 0, 41, 399, 377, 187>>
      [] k = 18 -> <<0, 0, 0, 15, 229, 979, 744>>
      [] k = 19 -> <<0, 0, 0, 5, 602, 796, 437>>
      [] k = 20 -> <<0, 0, 0, 2, 61, 153, 622>>
      [] k = 21 -> <<0, 0, 0, 0, 758, 256, 42>>
      [] k = 22 -> <<0, 0, 0, 0, 278, 946, 809>>
      [] k = 23 -> <<0, 0, 0, 0, 102, 618, 796>>
      [] k = 24 -> <<0, 0, 0, 0, 37, 751, 345>>
      [] k = 25 -> <<0, 0, 0, 0, 13, 887, 943>>
      [] k = 26 -> <<0, 0, 0, 0, 5, 109, 89>>
      [] k = 27 -> <<0, 0, 0, 0, 1, 879, 528>>
      [] k = 28 -> <<0, 0, 0, 0, 0, 691, 440>>
      [] k = 29 -> <<0, 0, 0, 0, 0, 254, 366>>
      [] k = 30 -> <<0, 0, 0, 0, 0, 93, 576>>
      [] k = 31 -> <<0, 0, 0, 0, 0, 34, 424>>
      [] k = 32 -> <<0, 0, 0, 0, 0, 12, 664>>
      [] k = 33 -> <<0, 0, 0, 0, 0, 4, 658>>
      [] k = 34 -> <<0, 0, 0, 0, 0, 1, 713>>
      [] k = 35 -> <<0, 0, 0, 0, 0, 0, 630>>
      [] k = 36 -> <<0, 0, 0, 0, 0, 0, 231>>
      [] k = 37 -> <<0, 0, 0, 0, 0, 0, 85>>
      [] k = 38 -> <<0, 0, 0, 0, 0, 0, 31>>
      [] k = 39 -> <<0, 0, 0, 0, 0, 0, 11>>
      [] k = 40 -> <<0, 0, 0, 0, 0, 0, 4>>
      [] k = 41 -> <<0, 0, 0, 0, 0, 0, 1>>
      [] OTHER -> <<0, 0, 0, 0, 0, 0, 0>>

\* den times the measure, group by group before the carries
RECURSIVE Weighted(_, _)
Weighted(coef, exponents) ==
    IF exponents = {} THEN <<0, 0, 0, 0, 0, 0, 0>>
    ELSE LET k == CHOOSE x \in exponents : TRUE
             c == coef[k]
             e == ExpNeg(k)
             rest == Weighted(coef, exponents \ {k})
         IN  <<c * e[1] + rest[1], c * e[2] + rest[2], c * e[3] + rest[3],
               c * e[4] + rest[4], c * e[5] + rest[5], c * e[6] + rest[6],
               c * e[7] + rest[7]>>

\* the carries, from the last group of decimals up to the whole part
RECURSIVE Carried(_, _, _)
Carried(groups, j, carry) ==
    IF j = 1 THEN <<groups[1] + carry>>
    ELSE Carried(groups, j - 1, (groups[j] + carry) \div 1000)
             \o <<(groups[j] + carry) % 1000>>

RECURSIVE AtLeast(_, _, _)
\* a >= b for two numbers in carried groups, from group j on
AtLeast(a, b, j) ==
    IF j > Len(a) THEN TRUE
    ELSE IF a[j] # b[j] THEN a[j] > b[j]
    ELSE AtLeast(a, b, j + 1)

\* den times the measure with every e^-k cut off after 18 decimals, and
\* with a margin of den * 10^-12 added: the first is at most den * 10^-18
\* below the measure without rounding
InFull(measure, margin) ==
    LET coef == Coefficients(measure)
        groups == Weighted(coef, DOMAIN coef)
    IN  Carried([groups EXCEPT ![5] = @ + margin], 7, 0)

\* den * threshold / 1000 with the same margin, in the same groups
ThresholdInFull(measure, threshold, margin) ==
    Carried(<<(threshold * Denominator(measure)) \div 1000,
              (threshold * Denominator(measure)) % 1000, 0, 0, margin, 0, 0>>, 7, 0)

\* 1000 * den * measure with every e^-k cut off after three decimals: at
\* most den below the value without rounding
Thousandths(measure) ==
    LET coef == Coefficients(measure)
    IN  SumOver(DOMAIN coef,
                [k \in DOMAIN coef |-> coef[k] * (1000 * ExpNeg(k)[1] + ExpNeg(k)[2])])

\* the whole numbers of the decimal shortcuts stay below 2^31
Small(measure, threshold) ==
    /\ threshold <= 1000
    /\ measure.prev_precip_sum <= 2000000 \div measure.curr_precip_sum

\* similarity_measure > threshold / 1000.  On a grid of up to 90 cells the
\* double lies within 10^-12 of the measure without rounding (three
\* roundings for each term and one for each addition, of 2^-53 each, on
\* values of at most 1): the comparison is the one without rounding when
\* that one is clear by 10^-12, which three decimals show most of the time
\* and 18 show otherwise; it is made on the doubles when it is closer than
\* that, and when the whole numbers of the decimals would pass 2^31
Above(measure, threshold) ==
    IF ~Small(measure, threshold) THEN AboveInDoubles(measure, threshold)
    ELSE LET near == Thousandths(measure)
             den == Denominator(measure)
         IN  IF near > threshold * den THEN TRUE
             ELSE IF near + den < threshold * den THEN FALSE
             ELSE IF AtLeast(InFull(measure, 0), ThresholdInFull(measure, threshold, den), 1)
             THEN TRUE
             ELSE IF AtLeast(ThresholdInFull(measure, threshold, 0), InFull(measure, den), 1)
             THEN FALSE
             ELSE AboveInDoubles(measure, threshold)

\* mutant: "not similarity <= threshold", which nan passes
SimilarityNotAtMost(measure, threshold) ==
    \/ measure.curr_precip_sum = 0
    \/ measure.prev_precip_sum = 0
    \/ Above(measure, threshold)

\* similarity(...) > threshold, threshold in thousandths; a comparison with
\* nan is false
SimilarityExceeds(measure, threshold) ==
    /\ measure.curr_precip_sum # 0
    /\ measure.prev_precip_sum # 0
    /\ Above(measure, threshold)

(***************************************************************************)
(* Relabeler (skimage relabel_sequential, offset 1): the distinct non-zero  *)
(* labels, in ascending order, become 1..K; 0 stays 0.                      *)
(***************************************************************************)
UsedLabels(grid) == {grid[t][cell] : t \in DOMAIN grid, cell \in Cells} \ {0}

\* mutant: the ranks are counted from the largest label down
forward_map_descending(grid, label) ==
    IF label = 0 THEN 0
    ELSE Cardinality({other \in UsedLabels(grid) : other >= label})

forward_map(grid, label) ==
    IF label = 0 THEN 0
    ELSE Cardinality({other \in UsedLabels(grid) : other <= label})

\* mutant: every time slice is relabelled on its own
relabel_each_slice(grid) ==
    [t \in DOMAIN grid |->
        [cell \in Cells |->
            IF grid[t][cell] = 0 THEN 0
            ELSE Cardinality({other \in LabelsOf(grid[t]) \ {0} : other <= grid[t][cell]})]]

relabel_sequential(grid) ==
    [t \in DOMAIN grid |-> [cell \in Cells |-> forward_map(grid, grid[t][cell])]]

(***************************************************************************)
(* StormLinker: the scan of the storms of the previous time slice for one   *)
(* label of the current one (the body of "for storm in previous_storms").   *)
(* A scan state holds max_size, best_matched_storm, vec_angle (which        *)
(* outlives the scan: it is a local of track) and whether the scan stopped  *)
(* on reading vec_angle before any assignment (UnboundLocalError).          *)
(***************************************************************************)
previous_storms(t) == Unique(result_data[t - 1])

current_labels(t) == Unique(labeled_maps[t])

current_label(t, label) == Footprint(labeled_maps[t], label)

curr_centroid(t, label) == CenterOfMass(current_label(t, label), precip_data[t])

previous_storm(t, storm) == Footprint(result_data[t - 1], storm)

prev_centroid(t, storm) == CenterOfMass(previous_storm(t, storm), precip_data[t - 1])

curr_prev_displacement(t, label, storm) ==
    displacement(curr_centroid(t, label), prev_centroid(t, storm))

\* mutant: the size comparison is reversed
SizeTestReversed(t, storm, max_size) ==
    storm # 0 /\ Size(previous_storm(t, storm)) < max_size

\* "storm and prev_size > max_size"
SizeTest(t, storm, max_size) ==
    storm # 0 /\ Size(previous_storm(t, storm)) > max_size

\* "similarity(...) > tau"
TauTest(t, label, storm) ==
    SimilarityExceeds(
        similarity(current_label(t, label), previous_storm(t, storm),
                   precip_data[t], precip_data[t - 1], phi),
        tau)

\* "curr_prev_magnitude < km"
ProximityTest(t, label, storm) ==
    MagnitudeLess(curr_prev_displacement(t, label, storm), km)

\* the displacement of the storm between the time slices t-2 and t-1
prev_pred_displacement(t, storm) ==
    displacement(prev_centroid(t, storm),
                 CenterOfMass(Footprint(result_data[t - 2], storm), precip_data[t - 2]))

\* mutant: at time index 1 vec_angle is assigned -1
AngleAfterMinusOne(t, label, storm, old_angle) ==
    IF t > 1
    THEN IF storm \in LabelsOf(result_data[t - 2])
         THEN angle(curr_prev_displacement(t, label, storm), prev_pred_displacement(t, storm))
         ELSE old_angle
    ELSE Number(-1000)

\* vec_angle as the "else" branch leaves it: assigned 1 at time index 1,
\* assigned the angle when the storm is in time slice t-2, left alone otherwise
AngleAfter(t, label, storm, old_angle) ==
    IF t > 1
    THEN IF storm \in LabelsOf(result_data[t - 2])
         THEN angle(curr_prev_displacement(t, label, storm), prev_pred_displacement(t, storm))
         ELSE old_angle
    ELSE Number(1000)

\* mutant: the best matched storm is not recorded with its size
AcceptForgetsStorm(st, t, storm) ==
    [st EXCEPT !.max_size = Size(previous_storm(t, storm))]

Accept(st, t, storm) ==
    [st EXCEPT !.max_size = Size(previous_storm(t, storm)),
               !.best_matched_storm = storm]

\* "if test: print(...)": n more lines are printed
Say(st, n) == IF test THEN [st EXCEPT !.lines = @ + n] ELSE st

\* mutant: the similarity is not compared with tau
ScanStormWithoutTau(st, t, label, storm) ==
    IF st.fault THEN st
    ELSE IF ~SizeTest(t, storm, st.max_size) THEN Say(st, 2)
    ELSE IF ProximityTest(t, label, storm)
         THEN Accept(Say(st, 8), t, storm)
         ELSE LET new_angle == AngleAfter(t, label, storm, st.vec_angle)
              IN  IF new_angle.kind = "unassigned"
                  THEN [Say(st, 7) EXCEPT !.fault = TRUE]
                  ELSE IF AngleAccepts(new_angle)
                       THEN Accept([Say(st, 9) EXCEPT !.vec_angle = new_angle], t, storm)
                       ELSE [Say(st, 8) EXCEPT !.vec_angle = new_angle]

\* mutant: the update after the angle test is indented under "if test:"
ScanStormUpdateUnderTest(st, t, label, storm) ==
    IF st.fault THEN st
    ELSE IF ~SizeTest(t, storm, st.max_size) THEN Say(st, 2)
    ELSE IF ~TauTest(t, label, storm) THEN Say(st, 3)
    ELSE IF ProximityTest(t, label, storm)
         THEN Accept(Say(st, 8), t, storm)
         ELSE LET new_angle == AngleAfter(t, label, storm, st.vec_angle)
              IN  IF new_angle.kind = "unassigned"
                  THEN [Say(st, 7) EXCEPT !.fault = TRUE]
                  ELSE IF AngleAccepts(new_angle) /\ test
                       THEN Accept([Say(st, 9) EXCEPT !.vec_angle = new_angle], t, storm)
                       ELSE [Say(st, 8) EXCEPT !.vec_angle = new_angle]

\* one pass of the loop body for one storm of the previous time slice; the
\* printouts: 2 lines for every storm (lines 74, 83), 1 by similarity() (line
\* 231), 4 after the tau test (104-107), then "through distance" (112), or
\* the angle (134, which reads vec_angle as line 135 does) and "through
\* angle" (138)
ScanStorm(st, t, label, storm) ==
    IF st.fault THEN st
    ELSE IF ~SizeTest(t, storm, st.max_size) THEN Say(st, 2)
    ELSE IF ~TauTest(t, label, storm) THEN Say(st, 3)
    ELSE IF ProximityTest(t, label, storm)
         THEN Accept(Say(st, 8), t, storm)
         ELSE LET new_angle == AngleAfter(t, label, storm, st.vec_angle)
              IN  IF new_angle.kind = "unassigned"
                  THEN [Say(st, 7) EXCEPT !.fault = TRUE]
                  ELSE IF AngleAccepts(new_angle)
                       THEN Accept([Say(st, 9) EXCEPT !.vec_angle = new_angle], t, storm)
                       ELSE [Say(st, 8) EXCEPT !.vec_angle = new_angle]

RECURSIVE ScanFrom(_, _, _, _)
\* the loop over previous_storms from position i on
ScanFrom(st, t, label, i) ==
    IF i > Len(previous_storms(t)) THEN st
    ELSE ScanFrom(ScanStorm(st, t, label, previous_storms(t)[i]), t, label, i + 1)

\* the whole scan for one label, entered with the given vec_angle
Scan(t, label, old_angle) ==
    ScanFrom([max_size |-> 0, best_matched_storm |-> 0,
              vec_angle |-> old_angle, fault |-> FALSE, lines |-> 0], t, label, 1)

\* mutant: the mask is taken from the previous raw time slice
WriteBackPreviousMask(t, label, value) ==
    [result_data EXCEPT ![t] =
        [cell \in Cells |-> IF labeled_maps[t - 1][cell] = label THEN value ELSE @[cell]]]

\* mutant: the write goes to the previous time slice
WriteBackPreviousSlice(t, label, value) ==
    [result_data EXCEPT ![t - 1] =
        [cell \in Cells |-> IF labeled_maps[t][cell] = label THEN value ELSE @[cell]]]

\* mutant: the mask is every cell of the slice that is not background
WriteBackWholeSlice(t, label, value) ==
    [result_data EXCEPT ![t] =
        [cell \in Cells |-> IF labeled_maps[t][cell] # 0 THEN value ELSE @[cell]]]

\* np.where(labeled_maps[t] == label, value, result_data[t])
WriteBack(t, label, value) ==
    [result_data EXCEPT ![t] =
        [cell \in Cells |-> IF labeled_maps[t][cell] = label THEN value ELSE @[cell]]]

\* mutant: the raw labels of the current time slice are not looked at
MaxLabelOfPreviousSlice(t) ==
    FrameMax(result_data[t - 1])

\* max(np.max(result_data[t - 1]), np.max(labeled_maps[t]))
MaxLabelSeen(t) ==
    LET a == FrameMax(result_data[t - 1])
        b == FrameMax(labeled_maps[t])
    IN  IF a >= b THEN a ELSE b

(***************************************************************************)
(* The state machine of track().                                            *)
(***************************************************************************)
NoGrid == <<>>

\* what track() left behind: how it ended and the grid it returned
Outcome == [status |-> pc, grid |-> seq_result]

\* no earlier call of track()
NoOutcome == [status |-> "none", grid |-> NoGrid]

\* angle() is not being called
NoVector == [r |-> 0, c |-> 0, w |-> 0]

Init ==
    /\ \E series \in [Times -> Scenes] :
          /\ labeled_maps = [t \in Times |-> series[t].lab]
          /\ precip_data = [t \in Times |-> series[t].pre]
    /\ tau \in Taus
    /\ phi \in Phis
    /\ km \in Kms
    /\ result_data = NoGrid
    /\ seq_result = NoGrid
    /\ time_index = 0
    /\ label_idx = 0
    /\ max_label_so_far = 0
    /\ vec_angle = Unassigned
    /\ passes = 0
    /\ pc = "copy"
    /\ test = FALSE
    /\ printed = 0
    /\ first_outcome = NoOutcome
    /\ sim_forward = NotCalled
    /\ sim_backward = NotCalled
    /\ vec_one = NoVector
    /\ vec_two = NoVector

\* after the last time slice the loop is left for the final relabelling
AfterSlice(t) == IF t < NumFrames THEN "slice" ELSE "relabel"

\* result_data = copy.deepcopy(labeled_maps); the loop starts at time index 1
DeepCopy ==
    /\ pc = "copy"
    /\ result_data' = labeled_maps
    /\ time_index' = 1
    /\ pc' = AfterSlice(1)
    /\ UNCHANGED <<inputs, callers, printed, label_idx, max_label_so_far,
                   vec_angle, seq_result, passes>>

\* the head of the time loop: labels of the slice, maximum label seen
BeginSlice ==
    /\ pc = "slice"
    /\ time_index \in DOMAIN precip_data
    /\ max_label_so_far' = MaxLabelSeen(time_index)
    /\ label_idx' = 1
    /\ pc' = "label"
    /\ UNCHANGED <<inputs, callers, printed, result_data, time_index,
                   vec_angle, seq_result, passes>>

HasLabel == pc = "label" /\ label_idx <= Len(current_labels(time_index))

label == current_labels(time_index)[label_idx]

\* lines printed for a label outside the scan: lines 52, 62 and, when the scan
\* did not raise, 156
LabelLines == IF test THEN 3 ELSE 0

FaultLines == IF test THEN 2 ELSE 0

\* "if label:" is false for the background
SkipBackground ==
    /\ HasLabel
    /\ label = 0
    /\ label_idx' = label_idx + 1
    /\ UNCHANGED <<inputs, callers, printed, result_data, time_index,
                   max_label_so_far, vec_angle, seq_result, pc, passes>>

\* a match was found: the label takes the label of the best matched storm
LinkLabel ==
    /\ HasLabel
    /\ label # 0
    /\ LET st == Scan(time_index, label, vec_angle)
       IN  /\ ~st.fault
           /\ st.max_size # 0
           /\ result_data' = WriteBack(time_index, label, st.best_matched_storm)
           /\ vec_angle' = st.vec_angle
           /\ printed' = printed + st.lines + LabelLines
    /\ label_idx' = label_idx + 1
    /\ UNCHANGED <<inputs, callers, time_index, max_label_so_far, seq_result,
                   pc, passes>>

\* mutant: max_label_so_far is not incremented after a new storm
MintLabelWithoutIncrement ==
    /\ HasLabel
    /\ label # 0
    /\ LET st == Scan(time_index, label, vec_angle)
       IN  /\ ~st.fault
           /\ st.max_size = 0
           /\ result_data' = WriteBack(time_index, label, max_label_so_far + 1)
           /\ vec_angle' = st.vec_angle
           /\ printed' = printed + st.lines + LabelLines
    /\ label_idx' = label_idx + 1
    /\ UNCHANGED <<inputs, callers, time_index, max_label_so_far, seq_result,
                   pc, passes>>

\* mutant: the new storm is labelled max_label_so_far, then the counter grows
MintLabelAtCounter ==
    /\ HasLabel
    /\ label # 0
    /\ LET st == Scan(time_index, label, vec_angle)
       IN  /\ ~st.fault
           /\ st.max_size = 0
           /\ result_data' = WriteBack(time_index, label, max_label_so_far)
           /\ vec_angle' = st.vec_angle
           /\ printed' = printed + st.lines + LabelLines
    /\ max_label_so_far' = max_label_so_far + 1
    /\ label_idx' = label_idx + 1
    /\ UNCHANGED <<inputs, callers, time_index, seq_result, pc, passes>>

\* no match: a new storm, labelled max_label_so_far + 1
MintLabel ==
    /\ HasLabel
    /\ label # 0
    /\ LET st == Scan(time_index, label, vec_angle)
       IN  /\ ~st.fault
           /\ st.max_size = 0
           /\ result_data' = WriteBack(time_index, label, max_label_so_far + 1)
           /\ vec_angle' = st.vec_angle
           /\ printed' = printed + st.lines + LabelLines
    /\ max_label_so_far' = max_label_so_far + 1
    /\ label_idx' = label_idx + 1
    /\ UNCHANGED <<inputs, callers, time_index, seq_result, pc, passes>>

\* vec_angle is read before it was ever assigned: track raises
ScanFault ==
    /\ HasLabel
    /\ label # 0
    /\ Scan(time_index, label, vec_angle).fault
    /\ printed' = printed + Scan(time_index, label, vec_angle).lines + FaultLines
    /\ pc' = "fault"
    /\ UNCHANGED <<inputs, callers, result_data, time_index, label_idx,
                   max_label_so_far, vec_angle, seq_result, passes>>

\* the labels of the slice are exhausted: next time index
EndSlice ==
    /\ pc = "label"
    /\ label_idx > Len(current_labels(time_index))
    /\ time_index' = time_index + 1
    /\ pc' = AfterSlice(time_index + 1)
    /\ UNCHANGED <<inputs, callers, printed, result_data, label_idx,
                   max_label_so_far, vec_angle, seq_result, passes>>

\* seq_result = relabel_sequential(result_data)[0]
Relabel ==
    /\ pc = "relabel"
    /\ seq_result' = relabel_sequential(result_data)
    /\ passes' = passes + 1
    /\ pc' = "done"
    /\ UNCHANGED <<inputs, callers, printed, result_data, time_index,
                   label_idx, max_label_so_far, vec_angle>>

Next ==
    \/ DeepCopy
    \/ BeginSlice
    \/ SkipBackground
    \/ LinkLabel
    \/ MintLabel
    \/ ScanFault
    \/ EndSlice
    \/ Relabel

Spec == Init /\ [][Next]_vars

\* the same runs of track(), as the specification under which the properties of
\* the linking decision (similarity, size, distance and angle) are stated
SpecLinking == Init /\ [][Next]_vars

(***************************************************************************)
(* track() called with a precip_data that has fewer or more time slices     *)
(* than labeled_maps.  Nothing compares the two shapes: num_time_slices is  *)
(* taken from labeled_maps, and precip_data is indexed slice by slice.      *)
(***************************************************************************)
\* the numbers of time slices of precip_data
PrecipFrameCounts == {NumFrames - 1, NumFrames, NumFrames + 1}

InitShape ==
    /\ \E series \in [Times -> Scenes] : \E frames \in PrecipFrameCounts :
          /\ labeled_maps = [t \in Times |-> series[t].lab]
          /\ precip_data = [t \in 0 .. frames - 1 |->
                               IF t \in Times THEN series[t].pre
                               ELSE [cell \in Cells |-> 1]]
    /\ tau = 50
    /\ phi = 1
    /\ km \in Kms
    /\ result_data = NoGrid
    /\ seq_result = NoGrid
    /\ time_index = 0
    /\ label_idx = 0
    /\ max_label_so_far = 0
    /\ vec_angle = Unassigned
    /\ passes = 0
    /\ pc = "copy"
    /\ test = FALSE
    /\ printed = 0
    /\ first_outcome = NoOutcome
    /\ sim_forward = NotCalled
    /\ sim_backward = NotCalled
    /\ vec_one = NoVector
    /\ vec_two = NoVector

\* "precip_data[time_index]" past the last slice of precip_data: IndexError
PrecipIndexError ==
    /\ pc = "slice"
    /\ time_index \notin DOMAIN precip_data
    /\ pc' = "index_error"
    /\ UNCHANGED <<inputs, callers, printed, result_data, time_index,
                   label_idx, max_label_so_far, vec_angle, seq_result, passes>>

NextShape ==
    \/ Next
    \/ PrecipIndexError

SpecShape == InitShape /\ [][NextShape]_vars

(***************************************************************************)
(* track() called twice on the same arguments, first with test = False,     *)
(* then with test = True; the outcome of the first call is kept for the     *)
(* comparison.                                                              *)
(***************************************************************************)
InitTest ==
    /\ \E series \in [Times -> Scenes] :
          /\ labeled_maps = [t \in Times |-> series[t].lab]
          /\ precip_data = [t \in Times |-> series[t].pre]
    /\ tau = 50
    /\ phi = 1
    /\ km \in Kms
    /\ result_data = NoGrid
    /\ seq_result = NoGrid
    /\ time_index = 0
    /\ label_idx = 0
    /\ max_label_so_far = 0
    /\ vec_angle = Unassigned
    /\ passes = 0
    /\ pc = "copy"
    /\ test = FALSE
    /\ printed = 0
    /\ first_outcome = NoOutcome
    /\ sim_forward = NotCalled
    /\ sim_backward = NotCalled
    /\ vec_one = NoVector
    /\ vec_two = NoVector

\* the first call is over (returned or raised): the second call is entered
\* with fresh locals, the same arguments and test = True
CallAgain ==
    /\ pc \in {"done", "fault"}
    /\ ~test
    /\ first_outcome' = Outcome
    /\ test' = TRUE
    /\ result_data' = NoGrid
    /\ seq_result' = NoGrid
    /\ time_index' = 0
    /\ label_idx' = 0
    /\ max_label_so_far' = 0
    /\ vec_angle' = Unassigned
    /\ passes' = 0
    /\ pc' = "copy"
    /\ UNCHANGED <<labeled_maps, precip_data, tau, phi, km, printed, vec_one, vec_two,
                   sim_forward, sim_backward>>

NextTest ==
    \/ Next
    \/ CallAgain

SpecTest == InitTest /\ [][NextTest]_vars

(***************************************************************************)
(* angle() and the test "vec_angle > -.33" on their own, applied to the     *)
(* displacements of storms whose centroids are whole cells of a             *)
(* two-dimensional grid.                                                    *)
(***************************************************************************)
\* largest move of a centroid along one axis, in cells
MaxStep ==
    3

Vectors == {[r |-> a, c |-> b, w |-> 1] : a \in -MaxStep .. MaxStep, b \in -MaxStep .. MaxStep}

InitAngle ==
    /\ vec_one \in Vectors
    /\ vec_two \in Vectors
    /\ vec_angle = Unassigned
    /\ pc = "angle"
    /\ labeled_maps = NoGrid
    /\ precip_data = NoGrid
    /\ tau = 0
    /\ phi = 0
    /\ km = 0
    /\ test = FALSE
    /\ result_data = NoGrid
    /\ seq_result = NoGrid
    /\ time_index = 2
    /\ label_idx = 0
    /\ max_label_so_far = 0
    /\ passes = 0
    /\ printed = 0
    /\ first_outcome = NoOutcome
    /\ sim_forward = NotCalled
    /\ sim_backward = NotCalled

\* vec_angle = angle(curr_prev_displacement, prev_pred_displacement)
ComputeAngle ==
    /\ pc = "angle"
    /\ vec_angle' = angle(vec_one, vec_two)
    /\ pc' = "gate"
    /\ UNCHANGED <<inputs, callers, printed, result_data, time_index, label_idx,
                   max_label_so_far, seq_result, passes>>

\* "if vec_angle > -.33:" holds, the storm becomes the best match
GateAccepts ==
    /\ pc = "gate"
    /\ AngleAccepts(vec_angle)
    /\ pc' = "accepted"
    /\ UNCHANGED <<inputs, callers, printed, result_data, time_index, label_idx,
                   max_label_so_far, vec_angle, seq_result, passes>>

\* "if vec_angle > -.33:" fails, the storm is passed over
GateRejects ==
    /\ pc = "gate"
    /\ ~AngleAccepts(vec_angle)
    /\ pc' = "rejected"
    /\ UNCHANGED <<inputs, callers, printed, result_data, time_index, label_idx,
                   max_label_so_far, vec_angle, seq_result, passes>>

NextAngle ==
    \/ ComputeAngle
    \/ GateAccepts
    \/ GateRejects

SpecAngle == InitAngle /\ [][NextAngle]_vars

(***************************************************************************)
(* The Relabeler on its own: relabel_sequential applied to label grids that *)
(* need not come from the linking, and applied again to its own output.     *)
(***************************************************************************)
\* number of times the compaction is applied in a row
MaxPasses ==
    2

\* the time slices the label grids of the Relabeler runs are drawn from
RelabelRows ==
    { GridRow(<<0, 0, 0, 0>>),
      GridRow(<<1, 1, 0, 2>>),
      GridRow(<<3, 0, 0, 3>>),
      GridRow(<<0, 5, 2, 0>>),
      GridRow(<<2, 0, 0, 7>>),
      GridRow(<<4, 4, 1, 0>>) }

InitRelabel ==
    /\ labeled_maps \in [Times -> RelabelRows]
    /\ precip_data = [t \in Times |-> GridRow(<<>>)]
    /\ tau = 0
    /\ phi = 0
    /\ km = 0
    /\ result_data = labeled_maps
    /\ seq_result = NoGrid
    /\ time_index = NumFrames
    /\ label_idx = 0
    /\ max_label_so_far = 0
    /\ vec_angle = Unassigned
    /\ passes = 0
    /\ pc = "relabel"
    /\ test = FALSE
    /\ printed = 0
    /\ first_outcome = NoOutcome
    /\ sim_forward = NotCalled
    /\ sim_backward = NotCalled
    /\ vec_one = NoVector
    /\ vec_two = NoVector

\* the compacted grid is handed to relabel_sequential again
Reapply ==
    /\ pc = "done"
    /\ passes < MaxPasses
    /\ result_data' = seq_result
    /\ pc' = "relabel"
    /\ UNCHANGED <<inputs, callers, printed, time_index, label_idx,
                   max_label_so_far, vec_angle, seq_result, passes>>

NextRelabel ==
    \/ Relabel
    \/ Reapply

SpecRelabel == InitRelabel /\ [][NextRelabel]_vars

(***************************************************************************)
(* similarity() on its own, called on two storms and then on the same two   *)
(* storms exchanged: footprints and precipitation fields both change sides. *)
(* Slice 0 holds the one storm and slice 1 the other, each under label 1.   *)
(***************************************************************************)
\* the storms the two arguments are drawn from, with totals 0, 1, 2, 3 and 4
SwapStorms ==
    { [lab |-> GridRow(<<1, 1, 0, 0>>), pre |-> GridRow(<<0, 0, 0, 0>>)],
      [lab |-> GridRow(<<0, 0, 0, 1>>), pre |-> GridRow(<<0, 0, 0, 1>>)],
      [lab |-> GridRow(<<1, 1, 0, 0>>), pre |-> GridRow(<<1, 1, 0, 0>>)],
      [lab |-> GridRow(<<0, 0, 1, 1>>), pre |-> GridRow(<<0, 0, 1, 1>>)],
      [lab |-> GridRow(<<0, 0, 1, 1>>), pre |-> GridRow(<<0, 0, 2, 1>>)],
      [lab |-> GridRow(<<1, 0, 0, 1>>), pre |-> GridRow(<<1, 0, 0, 2>>)],
      [lab |-> GridRow(<<0, 1, 1, 0>>), pre |-> GridRow(<<0, 3, 1, 0>>)],
      [lab |-> GridRow(<<0, 0, 1, 1>>), pre |-> GridRow(<<0, 0, 1, 3>>)],
      [lab |-> GridRow(<<1, 1, 1, 0>>), pre |-> GridRow(<<2, 1, 1, 0>>)],
      [lab |-> GridRow(<<1, 1, 1, 1>>), pre |-> GridRow(<<1, 1, 1, 1>>)] }

\* the footprint of the storm of a slice
Storm(t) == Footprint(labeled_maps[t], 1)

InitSwap ==
    /\ \E pair \in [0 .. 1 -> SwapStorms] :
          /\ labeled_maps = [t \in 0 .. 1 |-> pair[t].lab]
          /\ precip_data = [t \in 0 .. 1 |-> pair[t].pre]
    /\ phi \in Phis
    /\ tau = 0
    /\ km = 0
    /\ test = FALSE
    /\ result_data = NoGrid
    /\ seq_result = NoGrid
    /\ time_index = 1
    /\ label_idx = 0
    /\ max_label_so_far = 0
    /\ vec_angle = Unassigned
    /\ passes = 0
    /\ pc = "forward"
    /\ printed = 0
    /\ first_outcome = NoOutcome
    /\ vec_one = NoVector
    /\ vec_two = NoVector
    /\ sim_forward = NotCalled
    /\ sim_backward = NotCalled

\* similarity(A, B, a, b, phi): the storm of slice 1 is the current one
CallForward ==
    /\ pc = "forward"
    /\ sim_forward' = Returned(similarity(Storm(1), Storm(0),
                                          precip_data[1], precip_data[0], phi))
    /\ pc' = "backward"
    /\ UNCHANGED <<inputs, first_outcome, vec_one, vec_two, sim_backward, printed,
                   result_data, time_index, label_idx, max_label_so_far,
                   vec_angle, seq_result, passes>>

\* similarity(B, A, b, a, phi): the storm of slice 0 is the current one
CallBackward ==
    /\ pc = "backward"
    /\ sim_backward' = Returned(similarity(Storm(0), Storm(1),
                                           precip_data[0], precip_data[1], phi))
    /\ pc' = "exchanged"
    /\ UNCHANGED <<inputs, first_outcome, vec_one, vec_two, sim_forward, printed,
                   result_data, time_index, label_idx, max_label_so_far,
                   vec_angle, seq_result, passes>>

NextSwap ==
    \/ CallForward
    \/ CallBackward

SpecSwap == InitSwap /\ [][NextSwap]_vars

(***************************************************************************)
(* track() on time slices that hold up to three storms.                     *)
(***************************************************************************)
\* the frames of these runs: no storm, one storm, two storms, and three
\* storms of which the middle one is the largest
CrowdScenes ==
    { [lab |-> GridRow(<<0, 0, 0, 0>>), pre |-> GridRow(<<1, 1, 1, 1>>)],
      [lab |-> GridRow(<<0, 0, 0, 2>>), pre |-> GridRow(<<0, 0, 0, 1>>)],
      [lab |-> GridRow(<<1, 1, 0, 2>>), pre |-> GridRow(<<1, 1, 0, 2>>)],
      [lab |-> GridRow(<<1, 2, 2, 3>>), pre |-> GridRow(<<1, 3, 1, 1>>)] }

InitCrowd ==
    /\ \E series \in [Times -> CrowdScenes] :
          /\ labeled_maps = [t \in Times |-> series[t].lab]
          /\ precip_data = [t \in Times |-> series[t].pre]
    /\ tau \in Taus
    /\ phi \in Phis
    /\ km \in Kms
    /\ result_data = NoGrid
    /\ seq_result = NoGrid
    /\ time_index = 0
    /\ label_idx = 0
    /\ max_label_so_far = 0
    /\ vec_angle = Unassigned
    /\ passes = 0
    /\ pc = "copy"
    /\ test = FALSE
    /\ printed = 0
    /\ first_outcome = NoOutcome
    /\ vec_one = NoVector
    /\ vec_two = NoVector
    /\ sim_forward = NotCalled
    /\ sim_backward = NotCalled

SpecCrowd == InitCrowd /\ [][Next]_vars

(***************************************************************************)
(* Vocabulary of the properties.                                            *)
(***************************************************************************)
Copied == pc # "copy"

LinkingOver == pc \in {"relabel", "done"}

\* track has left the loop over the time slices, by its end or by an error;
\* a resolved slice of result_data is not written again before that
LoopLeft == LinkingOver \/ pc = "fault"

RawLabels(t) == LabelsOf(labeled_maps[t]) \ {0}

\* the write-back for raw label L of time slice t has happened
IsResolved(t, L) ==
    /\ Copied
    /\ t \in Times
    /\ L \in RawLabels(t)
    /\ \/ t = 0
       \/ t < time_index
       \/ /\ t = time_index
          /\ pc \in {"label", "fault"}
          /\ \E i \in 1 .. (label_idx - 1) : current_labels(t)[i] = L

\* every raw label of time slice t is resolved
SliceResolved(t) == Copied /\ t \in Times /\ t < time_index

\* the labels result_data holds on the footprint of raw label L
ImageOf(t, L) == {result_data[t][cell] : cell \in current_label(t, L)}

\* the label a resolved raw label carries
Resolution(t, L) == result_data[t][CHOOSE cell \in current_label(t, L) : TRUE]

\* the non-background labels of the resolved time slice t
PersistentLabels(t) == LabelsOf(result_data[t]) \ {0}

RawPairs == UNION {{<<t, L>> : L \in RawLabels(t)} : t \in Times}

ResolvedPairs == {b \in RawPairs : IsResolved(b[1], b[2])}

\* a birth: the label of a resolved region that is not in the slice before
IsBirth(b) ==
    b[1] = 0 \/ Resolution(b[1], b[2]) \notin PersistentLabels(b[1] - 1)

Births == {b \in ResolvedPairs : IsBirth(b)}

\* the resolved regions of the time slices after slice 0
LaterPairs == {b \in ResolvedPairs : b[1] >= 1}

\* b1 is born before b2: earlier slice, or earlier raw label in the same slice
BornBefore(b1, b2) == b1[1] < b2[1] \/ (b1[1] = b2[1] /\ b1[2] < b2[2])

\* the largest label of the raw input, all slices
MaxRawLabel == SetMax(UNION {LabelsOf(labeled_maps[t]) : t \in Times})

(***************************************************************************)
(* C1.  No PersistentLabel is ever reused: of two distinct births in        *)
(* result_data, the later one (later time slice, or later raw label in the  *)
(* same slice) has the strictly greater label.                              *)
(* The code takes max_label_so_far from the previous slice and the current  *)
(* raw slice only, so a label that died out is minted again.                *)
(***************************************************************************)
C1_LaterBirthIsGreater ==
    \A b1 \in Births : \A b2 \in Births :
        BornBefore(b1, b2) => Resolution(b1[1], b1[2]) < Resolution(b2[1], b2[2])

(***************************************************************************)
(* C2.  Every label minted at a time step t >= 1 is strictly greater than   *)
(* every label of the raw input (all slices) and than every label of        *)
(* slice 0.                                                                 *)
(***************************************************************************)
C2_MintedAboveAllLabels ==
    \A b \in Births :
        b[1] >= 1 =>
            /\ Resolution(b[1], b[2]) > MaxRawLabel
            /\ \A p \in PersistentLabels(0) : Resolution(b[1], b[2]) > p

(***************************************************************************)
(* C3.  Original statement: two distinct raw labels of one time slice       *)
(* t >= 1 never carry the same PersistentLabel once resolved.               *)
(***************************************************************************)
C3_OneToOne ==
    \A b1 \in ResolvedPairs : \A b2 \in ResolvedPairs :
        (b1[1] >= 1 /\ b1[1] = b2[1] /\ b1[2] # b2[2])
            => Resolution(b1[1], b1[2]) # Resolution(b2[1], b2[2])

(***************************************************************************)
(* C3, amended.  Two distinct raw labels of one time slice t >= 1 carry the *)
(* same PersistentLabel only when both were linked to the same storm of     *)
(* slice t-1; labels minted in a slice are pairwise distinct and differ     *)
(* from every linked label of the slice.                                    *)
(***************************************************************************)
C3_SharedOnlyByLinks ==
    LET resolved == ResolvedPairs
    IN  \A b1 \in resolved : \A b2 \in resolved :
            (b1[1] >= 1 /\ b1[1] = b2[1] /\ b1[2] # b2[2]
                /\ Resolution(b1[1], b1[2]) = Resolution(b2[1], b2[2]))
                => ~IsBirth(b1) /\ ~IsBirth(b2)

\* two regions of one slice linked to the same storm, two others minted
C3_Witness ==
    /\ \E b1 \in ResolvedPairs : \E b2 \in ResolvedPairs :
          /\ b1[1] >= 1 /\ b1[1] = b2[1] /\ b1[2] # b2[2]
          /\ Resolution(b1[1], b1[2]) = Resolution(b2[1], b2[2])
    /\ \E b1 \in Births : \E b2 \in Births :
          b1[1] >= 1 /\ b1[1] = b2[1] /\ b1[2] # b2[2]

(***************************************************************************)
(* C4.  Once raw label L of time slice t >= 1 is resolved, all cells of its *)
(* footprint hold one and the same label in result_data[t]; that label is   *)
(* not 0 and is either a non-zero label of the resolved slice t-1 or a      *)
(* newly minted label (above the maximum label seen for the slice).         *)
(***************************************************************************)
C4_FootprintOneLabel ==
    \A b \in ResolvedPairs :
        b[1] >= 1 =>
            /\ Cardinality(ImageOf(b[1], b[2])) = 1
            /\ Resolution(b[1], b[2]) # 0
            /\ \/ Resolution(b[1], b[2]) \in PersistentLabels(b[1] - 1)
               \/ Resolution(b[1], b[2]) > MaxLabelSeen(b[1])

\* a slice holds a linked region and a minted region of two cells each
C4_Witness ==
    \E t \in Times \ {0} :
        /\ SliceResolved(t)
        /\ \E b \in ResolvedPairs :
              b[1] = t /\ ~IsBirth(b) /\ Size(current_label(t, b[2])) >= 2
        /\ \E u \in Times \ {0} : \E b \in Births :
              b[1] = u /\ Size(current_label(u, b[2])) >= 2

(***************************************************************************)
(* C5.  Every background cell of labeled_maps is background in result_data  *)
(* at every step of the run, and in the compacted grid that track returns.  *)
(***************************************************************************)
C5_BackgroundStays ==
    Copied =>
        \A t \in Times : \A cell \in Cells :
            labeled_maps[t][cell] = 0 =>
                /\ result_data[t][cell] = 0
                /\ (pc = "done" => seq_result[t][cell] = 0)

\* the run ended after a link and a mint, in a series with background cells
C5_Witness ==
    /\ pc = "done"
    /\ \E b \in ResolvedPairs : b[1] >= 1 /\ ~IsBirth(b)
    /\ \E b \in Births : b[1] >= 1
    /\ \A t \in Times : \E cell \in Cells : labeled_maps[t][cell] = 0

(***************************************************************************)
(* C6.  Before the final compaction, time slice 0 of result_data equals     *)
(* time slice 0 of labeled_maps cell for cell in every state: no step for   *)
(* t >= 1 writes to slice 0.                                                *)
(***************************************************************************)
C6_SliceZeroCopied ==
    Copied => result_data[0] = labeled_maps[0]

\* linking is over, slice 0 holds storms and a later slice was rewritten
C6_Witness ==
    /\ LinkingOver
    /\ RawLabels(0) # {}
    /\ \E t \in Times \ {0} : result_data[t] # labeled_maps[t]

(***************************************************************************)
(* C7.  The final compaction maps the distinct non-zero labels of           *)
(* result_data one-to-one onto 1..K, K their number, and 0 to 0, with one   *)
(* map for all time slices: two cells of seq_result (of any slices) are     *)
(* equal exactly when they were equal in result_data.                       *)
(***************************************************************************)
C7_CompactionBijective ==
    pc = "done" =>
        /\ UsedLabels(seq_result) = 1 .. Cardinality(UsedLabels(result_data))
        /\ \A t \in Times : \A cell \in Cells :
              (seq_result[t][cell] = 0) <=> (result_data[t][cell] = 0)
        /\ \A t1 \in Times : \A c1 \in Cells : \A t2 \in Times : \A c2 \in Cells :
              (seq_result[t1][c1] = seq_result[t2][c2])
                  <=> (result_data[t1][c1] = result_data[t2][c2])

\* the compaction closed a gap: at least two labels, and some cell changed
C7_Witness ==
    /\ pc = "done"
    /\ Cardinality(UsedLabels(result_data)) >= 2
    /\ seq_result # result_data

(***************************************************************************)
(* C8.  The Relabeler is idempotent: applied to its own output it changes   *)
(* no cell, and it changes no cell of a grid whose non-zero labels are      *)
(* exactly 1..K.  (result_data is the grid handed in, seq_result the grid   *)
(* handed back.)                                                            *)
(***************************************************************************)
C8_RelabelIdempotent ==
    pc = "done" =>
        /\ passes >= 2 => seq_result = result_data
        /\ UsedLabels(result_data) = 1 .. Cardinality(UsedLabels(result_data))
              => seq_result = result_data

\* second pass over a grid whose first pass changed cells
C8_Witness ==
    /\ pc = "done"
    /\ passes = 2
    /\ result_data # labeled_maps
    /\ Cardinality(UsedLabels(result_data)) >= 2

(***************************************************************************)
(* C9.  Collision avoidance at time slice 1: every label minted while       *)
(* resolving slice 1 is strictly greater than every label of slice 0 and    *)
(* every raw label of slice 1, and differs from the label of every other    *)
(* region of slice 1.                                                       *)
(***************************************************************************)
C9_NewbornsOfSliceOne ==
    LET resolved == ResolvedPairs
    IN  \A b \in Births :
            b[1] = 1 =>
                /\ \A p \in LabelsOf(labeled_maps[0]) : Resolution(1, b[2]) > p
                /\ \A L \in RawLabels(1) : Resolution(1, b[2]) > L
                /\ \A other \in resolved :
                      (other[1] = 1 /\ other[2] # b[2])
                          => Resolution(1, other[2]) # Resolution(1, b[2])

\* raw labels of slice 1 collide with labels of slice 0; two regions are born
C9_Witness ==
    /\ SliceResolved(1)
    /\ RawLabels(1) \cap RawLabels(0) # {}
    /\ \E b1 \in Births : \E b2 \in Births :
          b1[1] = 1 /\ b2[1] = 1 /\ b1[2] # b2[2]

(***************************************************************************)
(* C10.  Vocabulary: storm P of the resolved slice t-1 is a near candidate  *)
(* of raw label L of slice t when L has a non-zero total intensity, their   *)
(* similarity exceeds tau and their centroids are less than km apart.       *)
(***************************************************************************)
NearCandidate(t, L, P) ==
    /\ P \in PersistentLabels(t - 1)
    /\ PrecipSum(current_label(t, L), precip_data[t]) # 0
    /\ TauTest(t, L, P)
    /\ ProximityTest(t, L, P)

(***************************************************************************)
(* C10.  Original statement: a raw label with a near candidate is not       *)
(* minted: resolved, it carries a label of slice t-1, and with a single     *)
(* near candidate P it carries exactly P.                                   *)
(***************************************************************************)
C10_SingleNearCandidateWins ==
    \A b \in ResolvedPairs :
        (b[1] >= 1 /\ \E P \in PersistentLabels(b[1] - 1) : NearCandidate(b[1], b[2], P))
        => /\ Resolution(b[1], b[2]) \in PersistentLabels(b[1] - 1)
           /\ \A P \in PersistentLabels(b[1] - 1) :
                 ( /\ NearCandidate(b[1], b[2], P)
                   /\ \A Q \in PersistentLabels(b[1] - 1) \ {P} :
                         ~NearCandidate(b[1], b[2], Q) )
                 => Resolution(b[1], b[2]) = P

(***************************************************************************)
(* C10, amended.  A raw label with a near candidate P is not minted:        *)
(* resolved, it carries a label of slice t-1 whose footprint there is at    *)
(* least as large as P's, and exactly P when no other storm of slice t-1    *)
(* has a similarity with it above tau.                                      *)
(***************************************************************************)
C10_NearCandidateLinks ==
    \A b \in ResolvedPairs :
        b[1] >= 1 =>
            LET storms == PersistentLabels(b[1] - 1)
                mine == Resolution(b[1], b[2])
            IN  \A P \in storms :
                    NearCandidate(b[1], b[2], P) =>
                        /\ mine \in storms
                        /\ Size(previous_storm(b[1], mine)) >= Size(previous_storm(b[1], P))
                        /\ (\A Q \in storms \ {P} : ~TauTest(b[1], b[2], Q)) => mine = P

\* a resolved label with a near candidate, once alone above tau and once
\* beside another storm above tau
C10_Witness ==
    /\ \E b \in LaterPairs : \E P \in PersistentLabels(b[1] - 1) :
          /\ NearCandidate(b[1], b[2], P)
          /\ \E Q \in PersistentLabels(b[1] - 1) \ {P} : TauTest(b[1], b[2], Q)
    /\ \E b \in LaterPairs : \E P \in PersistentLabels(b[1] - 1) :
          /\ NearCandidate(b[1], b[2], P)
          /\ \A Q \in PersistentLabels(b[1] - 1) \ {P} : ~TauTest(b[1], b[2], Q)

(***************************************************************************)
(* C11.  New birth.  A raw label L of slice t >= 1 for which no storm of    *)
(* the resolved slice t-1 has a similarity above tau (also when slice t-1   *)
(* is all background) gets a newly minted label: the counter + 1, which is  *)
(* above every label of slice t-1, and the counter advances by exactly one  *)
(* per birth.  Stated on the states: the label of such an L is the maximum  *)
(* label seen for the slice plus the number of births of the slice up to    *)
(* and including L, and while a slice is being resolved max_label_so_far is *)
(* that maximum plus the number of births so far.  The labels are read     *)
(* once track has left the loop over the time slices.                       *)
(***************************************************************************)
NoneAboveTau(t, L) == \A P \in PersistentLabels(t - 1) : ~TauTest(t, L, P)

BirthsUpTo(t, L) == {b \in Births : b[1] = t /\ b[2] <= L}

C11_NoCandidateMints ==
    LET births == Births
    IN  /\ LoopLeft =>
              \A b \in LaterPairs :
                  NoneAboveTau(b[1], b[2]) =>
                      LET mine == Resolution(b[1], b[2])
                      IN  /\ mine = MaxLabelSeen(b[1]) +
                                    Cardinality({x \in births : x[1] = b[1] /\ x[2] <= b[2]})
                          /\ b \in births
                          /\ \A P \in PersistentLabels(b[1] - 1) : mine > P
        /\ pc = "label" =>
              max_label_so_far =
                  MaxLabelSeen(time_index) +
                  Cardinality({x \in births : x[1] = time_index})

\* a birth after an all-background slice and a birth beside storms below tau
C11_Witness ==
    /\ LoopLeft
    /\ \E b \in LaterPairs :
          NoneAboveTau(b[1], b[2]) /\ PersistentLabels(b[1] - 1) = {}
    /\ \E b \in LaterPairs :
          NoneAboveTau(b[1], b[2]) /\ PersistentLabels(b[1] - 1) # {}
    /\ \E b \in LaterPairs :
          NoneAboveTau(b[1], b[2]) /\ Cardinality(BirthsUpTo(b[1], b[2])) >= 2

(***************************************************************************)
(* C12.  Vocabulary: raw label L of slice t is storm P of slice t-1 left    *)
(* where it was: same footprint, same precipitation under it.               *)
(***************************************************************************)
Stationary(t, L, P) ==
    /\ P \in PersistentLabels(t - 1)
    /\ previous_storm(t, P) = current_label(t, L)
    /\ \A cell \in current_label(t, L) : precip_data[t][cell] = precip_data[t - 1][cell]

\* whenever L is linked, it is linked to a storm of slice t-1 above tau
LinkedAboveTau ==
    \A b \in LaterPairs :
        ~IsBirth(b) =>
            /\ Resolution(b[1], b[2]) \in PersistentLabels(b[1] - 1)
            /\ TauTest(b[1], b[2], Resolution(b[1], b[2]))

\* two stationary storms of one slice whose cross-similarities are at most tau
StationaryPairs ==
    LET later == LaterPairs
        still == {b \in later :
                     \E P \in PersistentLabels(b[1] - 1) : Stationary(b[1], b[2], P)}
    IN  {q \in still \X still :
            /\ q[1][1] = q[2][1]
            /\ q[1][2] # q[2][2]
            /\ \E P1 \in PersistentLabels(q[1][1] - 1) :
                  Stationary(q[1][1], q[1][2], P1) /\ ~TauTest(q[1][1], q[2][2], P1)
            /\ \E P2 \in PersistentLabels(q[1][1] - 1) :
                  Stationary(q[1][1], q[2][2], P2) /\ ~TauTest(q[1][1], q[1][2], P2)}

\* the storm of slice t-1 that raw label L of slice t is, when stationary
Predecessor(t, L) == CHOOSE P \in PersistentLabels(t - 1) : Stationary(t, L, P)

(***************************************************************************)
(* C12.  Original statement: a raw label is linked only to a storm of slice *)
(* t-1 whose similarity with it exceeds tau; hence two stationary disjoint  *)
(* storms whose cross-similarity is at most tau each keep their own label.  *)
(***************************************************************************)
C12_StationaryKeepLabels ==
    LoopLeft =>
        /\ LinkedAboveTau
        /\ \A q \in StationaryPairs :
              /\ Resolution(q[1][1], q[1][2]) = Predecessor(q[1][1], q[1][2])
              /\ Resolution(q[2][1], q[2][2]) = Predecessor(q[2][1], q[2][2])

\* the first storm of a stationary pair is linked to a storm of slice t-1
\* that is neither of the two and whose similarity with it exceeds tau
TakesThird(q) ==
    /\ q[1] \notin Births
    /\ Resolution(q[1][1], q[1][2]) # Predecessor(q[1][1], q[1][2])
    /\ Resolution(q[1][1], q[1][2]) # Predecessor(q[2][1], q[2][2])
    /\ Resolution(q[1][1], q[1][2]) \in PersistentLabels(q[1][1] - 1)
    /\ TauTest(q[1][1], q[1][2], Resolution(q[1][1], q[1][2]))

(***************************************************************************)
(* C12, amended.  A raw label is linked only to a storm of slice t-1 whose  *)
(* similarity with it exceeds tau; hence of two stationary disjoint storms  *)
(* whose cross-similarity is at most tau neither takes the label of the     *)
(* other: each keeps its own label, is minted a new one, or takes the label *)
(* of a third storm of slice t-1 whose similarity with it exceeds tau.      *)
(***************************************************************************)
C12_NoCrossLink ==
    LoopLeft =>
        /\ LinkedAboveTau
        /\ \A q \in StationaryPairs :
              /\ Resolution(q[1][1], q[1][2]) # Predecessor(q[2][1], q[2][2])
              /\ \/ Resolution(q[1][1], q[1][2]) = Predecessor(q[1][1], q[1][2])
                 \/ q[1] \in Births
                 \/ TakesThird(q)

\* a stationary pair that kept its labels, one minted anew, and one whose
\* first storm took the label of a third, larger storm
C12_Witness ==
    /\ LoopLeft
    /\ \E q \in StationaryPairs :
          Resolution(q[1][1], q[1][2]) = Predecessor(q[1][1], q[1][2])
    /\ \E q \in StationaryPairs : q[1] \in Births
    /\ \E q \in StationaryPairs : TakesThird(q)

(***************************************************************************)
(* C13.  Input validation: when precip_data and labeled_maps differ in the  *)
(* number of time slices, track stops with an error before any time slice   *)
(* is processed: no slice of result_data is resolved and no result is       *)
(* returned.                                                                *)
(***************************************************************************)
ShapeMismatch == DOMAIN precip_data # DOMAIN labeled_maps

C13_MismatchRejectedFirst ==
    ShapeMismatch => pc \notin {"label", "relabel", "done"}

(***************************************************************************)
(* C14.  The outcome of track is a function of labeled_maps, precip_data,   *)
(* tau, phi and km alone, and the flag test has no effect on it: the call   *)
(* with test = True ends as the call with test = False on the same          *)
(* arguments ended, with the same returned grid or with the same error.     *)
(***************************************************************************)
SecondCallOver == test /\ pc \in {"done", "fault"}

C14_TestHasNoEffect ==
    SecondCallOver => Outcome = first_outcome

\* the call with test = True printed its trace and returned a grid with a link
C14_Witness ==
    /\ SecondCallOver
    /\ pc = "done"
    /\ first_outcome.status = "done"
    /\ printed > 0
    /\ \E b \in LaterPairs : ~IsBirth(b)

(***************************************************************************)
(* C18.  Original statement: in the angular fallback, when both             *)
(* displacement vectors are non-zero, the candidate passes the gate         *)
(* whatever the angle between them.                                         *)
(***************************************************************************)
GateDecided == pc \in {"accepted", "rejected"}

BothNonZero == ~IsZeroVector(vec_one) /\ ~IsZeroVector(vec_two)

C18_NonZeroVectorsPass ==
    (GateDecided /\ BothNonZero) => pc = "accepted"

(***************************************************************************)
(* C15.  Vocabulary: the two storms of an exchange and their totals.        *)
(***************************************************************************)
\* the normalisation total of a storm
Total(storm) == PrecipSum(Footprint(storm.lab, 1), storm.pre)

\* what similarity() returns with the first storm as the current one
Value(one, two, decay) ==
    Returned(similarity(Footprint(one.lab, 1), Footprint(two.lab, 1),
                        one.pre, two.pre, decay))

\* both calls of the exchange have returned
Exchanged == pc = "exchanged"

\* two values returned by similarity() are different numbers
Differ(one, two) ==
    /\ one.kind = "number"
    /\ two.kind = "number"
    /\ Greater(one.double, two.double) \/ Greater(two.double, one.double)

(***************************************************************************)
(* C15.  The similarity is not symmetric: there are storms A and B with     *)
(* different normalisation totals, neither of them zero, for which the      *)
(* double that similarity(A, B) returns differs from the double that        *)
(* similarity(B, A) returns, the exchange swapping both the footprints and  *)
(* the precipitation fields.  Stated for the phi of the run, over the       *)
(* storms the exchanges are drawn from.                                     *)
(***************************************************************************)
C15_SomePairAsymmetric ==
    \E a \in SwapStorms, b \in SwapStorms :
        /\ Total(a) # Total(b)
        /\ Total(a) # 0
        /\ Total(b) # 0
        /\ Differ(Value(a, b, phi), Value(b, a, phi))

\* an exchange of two storms of different totals has returned two different
\* numbers
C15_Witness ==
    /\ Exchanged
    /\ PrecipSum(Storm(0), precip_data[0]) # PrecipSum(Storm(1), precip_data[1])
    /\ PrecipSum(Storm(0), precip_data[0]) # 0
    /\ PrecipSum(Storm(1), precip_data[1]) # 0
    /\ Differ(sim_forward, sim_backward)

(***************************************************************************)
(* C16.  Vocabulary: the gates of one pair (L, P) taken on its own, the     *)
(* candidates that pass tau and a gate, and the comparator: largest size    *)
(* in slice t-1, then smallest label.                                       *)
(***************************************************************************)
AngularGate(t, L, P) ==
    \/ t = 1
    \/ /\ P \in LabelsOf(result_data[t - 2])
       /\ AngleAccepts(angle(curr_prev_displacement(t, L, P), prev_pred_displacement(t, P)))

Candidates(t, L) ==
    {P \in PersistentLabels(t - 1) :
        TauTest(t, L, P) /\ (ProximityTest(t, L, P) \/ AngularGate(t, L, P))}

Comparator(t, L) ==
    CHOOSE P \in Candidates(t, L) :
        \A Q \in Candidates(t, L) :
            \/ Size(previous_storm(t, P)) > Size(previous_storm(t, Q))
            \/ Size(previous_storm(t, P)) = Size(previous_storm(t, Q)) /\ P <= Q

(***************************************************************************)
(* C16.  Tie-break: the best match that the sequential scan leaves for a    *)
(* raw label L of slice t is the comparator's choice among the candidates   *)
(* that pass tau and the proximity or angular gate, and L is minted if and  *)
(* only if there is no such candidate.                                      *)
(***************************************************************************)
C16_ScanIsComparator ==
    \A b \in LaterPairs :
        IF Candidates(b[1], b[2]) = {}
        THEN IsBirth(b)
        ELSE Resolution(b[1], b[2]) = Comparator(b[1], b[2])

(***************************************************************************)
(* C17.  At time index 1 the angular test is always satisfied: a storm of   *)
(* slice 0 above tau and larger than the best so far is accepted also when  *)
(* the displacement is not below km.  So the links of slice 1 do not depend *)
(* on km: a raw label of slice 1 takes the largest storm of slice 0 above   *)
(* tau (the smallest label among equals) and is minted when there is none.  *)
(***************************************************************************)
AboveTau(t, L) == {P \in PersistentLabels(t - 1) : TauTest(t, L, P)}

LargestAboveTau(t, L) ==
    CHOOSE P \in AboveTau(t, L) :
        \A Q \in AboveTau(t, L) :
            \/ Size(previous_storm(t, P)) > Size(previous_storm(t, Q))
            \/ Size(previous_storm(t, P)) = Size(previous_storm(t, Q)) /\ P <= Q

C17_SliceOneIgnoresDistance ==
    LoopLeft =>
        \A b \in LaterPairs :
            b[1] = 1 =>
                IF AboveTau(1, b[2]) = {}
                THEN IsBirth(b)
                ELSE Resolution(1, b[2]) = LargestAboveTau(1, b[2])

\* a link of slice 1 to a storm that is not within a positive km
C17_Witness ==
    \E b \in LaterPairs :
        /\ LoopLeft
        /\ b[1] = 1
        /\ ~IsBirth(b)
        /\ km > 0
        /\ ~ProximityTest(1, b[2], Resolution(1, b[2]))

(***************************************************************************)
(* C19, C20.  Vocabulary: the scan of the current label stopped before the  *)
(* n+1-th storm of previous_storms, and one more pass of the loop body.     *)
(***************************************************************************)
RECURSIVE ScanUpTo(_, _, _, _)
ScanUpTo(t, L, old_angle, n) ==
    IF n = 0
    THEN [max_size |-> 0, best_matched_storm |-> 0,
          vec_angle |-> old_angle, fault |-> FALSE, lines |-> 0]
    ELSE ScanStorm(ScanUpTo(t, L, old_angle, n - 1), t, L, previous_storms(t)[n])

Before(n) == ScanUpTo(time_index, label, vec_angle, n - 1)

After(n) == ScanUpTo(time_index, label, vec_angle, n)

\* the n-th pass neither accepted its storm nor raised
PassedOver(n) ==
    /\ ~After(n).fault
    /\ After(n).max_size = Before(n).max_size
    /\ After(n).best_matched_storm = Before(n).best_matched_storm

Scanning == HasLabel /\ label # 0

ZeroTotal(footprint, raw_data) == PrecipSum(footprint, raw_data) = 0

(***************************************************************************)
(* C19.  A footprint with zero total precipitation never takes part in a    *)
(* match and never makes track raise: a raw label with zero total is        *)
(* minted, a storm of slice t-1 with zero total is never the best match,    *)
(* and the scan goes on in both cases.                                      *)
(***************************************************************************)
C19_ZeroTotalNeverMatches ==
    /\ LoopLeft =>
          \A b \in LaterPairs :
              ZeroTotal(current_label(b[1], b[2]), precip_data[b[1]]) => IsBirth(b)
    /\ LoopLeft =>
          \A b \in LaterPairs :
              ~IsBirth(b) =>
                  ~ZeroTotal(previous_storm(b[1], Resolution(b[1], b[2])),
                             precip_data[b[1] - 1])
    /\ Scanning =>
          \A n \in 1 .. Len(previous_storms(time_index)) :
              (/\ ~Before(n).fault
               /\ \/ ZeroTotal(current_label(time_index, label), precip_data[time_index])
                  \/ ZeroTotal(previous_storm(time_index, previous_storms(time_index)[n]),
                               precip_data[time_index - 1]))
              => PassedOver(n)

\* a resolved raw label with zero total that lies on a storm of slice t-1,
\* and a resolved raw label that lies on a storm with zero total
C19_Witness ==
    /\ LoopLeft
    /\ \E b \in LaterPairs : \E P \in PersistentLabels(b[1] - 1) :
          /\ ZeroTotal(current_label(b[1], b[2]), precip_data[b[1]])
          /\ ~ZeroTotal(previous_storm(b[1], P), precip_data[b[1] - 1])
          /\ current_label(b[1], b[2]) \cap previous_storm(b[1], P) # {}
    /\ \E b \in LaterPairs : \E P \in PersistentLabels(b[1] - 1) :
          /\ ~ZeroTotal(current_label(b[1], b[2]), precip_data[b[1]])
          /\ ZeroTotal(previous_storm(b[1], P), precip_data[b[1] - 1])
          /\ current_label(b[1], b[2]) \cap previous_storm(b[1], P) # {}

(***************************************************************************)
(* C20.  Zero-length vectors in the angular fallback: at time index 2 or    *)
(* later, when a storm P passes the size and tau tests, fails the proximity *)
(* test, and the displacement from P to the label, or the displacement of   *)
(* P from slice t-2 to slice t-1, has zero length, P is not accepted and    *)
(* track does not raise.                                                    *)
(***************************************************************************)
ZeroLengthCase(t, L, P) ==
    \/ IsZeroVector(curr_prev_displacement(t, L, P))
    \/ /\ P \in LabelsOf(result_data[t - 2])
       /\ IsZeroVector(prev_pred_displacement(t, P))

C20_ZeroLengthNotAccepted ==
    (Scanning /\ time_index >= 2) =>
        \A n \in 1 .. Len(previous_storms(time_index)) :
            LET P == previous_storms(time_index)[n]
            IN  (/\ ~Before(n).fault
                 /\ SizeTest(time_index, P, Before(n).max_size)
                 /\ TauTest(time_index, label, P)
                 /\ ~ProximityTest(time_index, label, P)
                 /\ ZeroLengthCase(time_index, label, P))
                => PassedOver(n)

(***************************************************************************)
(* C21.  Vocabulary: the labels of time slice t taken in a given order,     *)
(* each scanned as lines 54-140 scan it, vec_angle passing from one scan to *)
(* the next as the local of track does.  A decision is the best matched    *)
(* storm of slice t-1 at the end of the scan (0, as line 56 leaves it, for  *)
(* a new storm), or that track has raised and decides nothing.              *)
(***************************************************************************)
\* the orders in which the non-background labels of slice t can be taken
Orders(t) ==
    {order \in [1 .. Cardinality(RawLabels(t)) -> RawLabels(t)] :
        \A i, j \in DOMAIN order : order[i] = order[j] => i = j}

\* the order of the code: np.unique, ascending
Ascending(t) == SortedSeq(RawLabels(t))

RECURSIVE DecideFrom(_, _, _, _, _)
\* the decisions for order[i], order[i + 1], ..., entered with vec_angle = a
DecideFrom(t, order, i, a, raised) ==
    IF i > Len(order) THEN <<>>
    ELSE LET st == Scan(t, order[i], a)
         IN  IF raised \/ st.fault
             THEN <<[raised |-> TRUE, best_matched_storm |-> 0]>>
                      \o DecideFrom(t, order, i + 1, a, TRUE)
             ELSE <<[raised |-> FALSE, best_matched_storm |-> st.best_matched_storm]>>
                      \o DecideFrom(t, order, i + 1, st.vec_angle, FALSE)

\* the decision for label L when the labels of slice t are taken in the order
DecisionFor(t, order, L) ==
    DecideFrom(t, order, 1, vec_angle, FALSE)[CHOOSE i \in DOMAIN order : order[i] = L]

\* the head of the loop over the labels of a time slice
SliceStart == pc = "label" /\ label_idx = 1

(***************************************************************************)
(* C21.  Within one time slice the decision for a label (the storm of       *)
(* slice t-1 it continues, or that it is a new storm) does not depend on    *)
(* the other labels of the slice: taking the labels in any order gives the  *)
(* decisions of the ascending order of the code.                            *)
(* The scans read labeled_maps[t], result_data[t-1] and result_data[t-2]    *)
(* only, but they share vec_angle: a storm that is not in slice t-2 is      *)
(* tested on the value the label before it left.                            *)
(***************************************************************************)
C21_OrderIndependent ==
    SliceStart =>
        \A order \in Orders(time_index) : \A L \in RawLabels(time_index) :
            DecisionFor(time_index, order, L) =
                DecisionFor(time_index, Ascending(time_index), L)

(***************************************************************************)
(* C22.  Frame condition of a resolution step: resolving raw label L at     *)
(* time index t changes result_data only at the cells of the footprint of L *)
(* in slice t; every cell of slice t is written at most once during the run *)
(* (a cell changes only in the step that resolves the raw label it holds,   *)
(* and the position in current_labels and the time index only advance);     *)
(* the slices already resolved are never modified afterwards; labeled_maps  *)
(* and precip_data are never modified by track.                             *)
(***************************************************************************)
FrameCondition ==
    /\ labeled_maps' = labeled_maps
    /\ precip_data' = precip_data
    /\ time_index' >= time_index
    /\ (pc = "label" /\ time_index' = time_index) => label_idx' >= label_idx
    /\ Copied =>
          \A t \in Times : \A cell \in Cells :
              result_data'[t][cell] # result_data[t][cell] =>
                  /\ HasLabel
                  /\ label # 0
                  /\ t = time_index
                  /\ cell \in current_label(t, label)
                  /\ label_idx' = label_idx + 1
                  /\ time_index' = time_index

C22_WritesOnlyFootprint == [][FrameCondition]_vars

\* the loop is over and a slice of two labels had both footprints rewritten,
\* one linked and one minted, under inputs that hold more than one label
C22_Witness ==
    /\ LoopLeft
    /\ \E b1 \in LaterPairs : \E b2 \in LaterPairs :
          /\ b1[1] = b2[1]
          /\ b1[2] # b2[2]
          /\ Resolution(b1[1], b1[2]) # b1[2]
          /\ Resolution(b2[1], b2[2]) # b2[2]
          /\ IsBirth(b1)
          /\ ~IsBirth(b2)

(***************************************************************************)
(* C23.  For every input whose grids have matching shapes, track resolves   *)
(* every time slice and returns without fault: no reachable state reads     *)
(* vec_angle before it has been assigned in the current run, in particular  *)
(* when at t >= 2 a storm passes the size and tau tests, fails the          *)
(* proximity test and is not in the resolved slice t-2.                     *)
(* vec_angle is assigned only at time index 1 (line 133) and for a storm    *)
(* that is in slice t-2 (line 131); lines 134-135 read it in every case.    *)
(***************************************************************************)
C23_NoUnassignedRead ==
    /\ pc # "fault"
    /\ (Scanning /\ time_index >= 2) =>
          \A n \in 1 .. Len(previous_storms(time_index)) :
              LET P == previous_storms(time_index)[n]
              IN  (/\ ~Before(n).fault
                   /\ SizeTest(time_index, P, Before(n).max_size)
                   /\ TauTest(time_index, label, P)
                   /\ ~ProximityTest(time_index, label, P)
                   /\ P \notin LabelsOf(result_data[time_index - 2]))
                  => ~After(n).fault

(***************************************************************************)
(* C24.  Vocabulary: the n-th pass of the scan reaches the angular test     *)
(* (size and tau passed, proximity failed), the pass accepted its storm,    *)
(* the angular value of the pair's own data, and what a pass decides.       *)
(***************************************************************************)
ReachesAngularTest(n) ==
    /\ ~Before(n).fault
    /\ SizeTest(time_index, previous_storms(time_index)[n], Before(n).max_size)
    /\ TauTest(time_index, label, previous_storms(time_index)[n])
    /\ ~ProximityTest(time_index, label, previous_storms(time_index)[n])

Accepted(st, storm) == ~st.fault /\ st.best_matched_storm = storm

\* the value lines 121-133 assign for the pair; "unassigned" when they
\* assign nothing
OwnAngle(t, L, P) == AngleAfter(t, L, P, Unassigned)

\* the values vec_angle holds when a scan is entered on the one-row grid
AngularValues == {Unassigned, NanAngle, Number(1000), Number(0), Number(3142)}

\* the n-th pass taken with vec_angle = a left by what was evaluated before
PassWith(n, a) ==
    ScanStorm([Before(n) EXCEPT !.vec_angle = a], time_index, label,
              previous_storms(time_index)[n])

Decision(st, storm) ==
    IF st.fault THEN "raise" ELSE IF Accepted(st, storm) THEN "accept" ELSE "pass over"

(***************************************************************************)
(* C24.  The acceptance of a storm P for a label L through the angular      *)
(* test depends only on the pair's own data: when lines 121-133 assign an   *)
(* angular value for the pair, P is accepted exactly when that value is     *)
(* above -.33; when they assign none (t >= 2, P not in slice t-2) the       *)
(* decision is the same whatever value the pairs evaluated before left in   *)
(* vec_angle.                                                               *)
(* vec_angle is a local of track that is never reset: line 135 then tests   *)
(* the value of another storm, label or time slice.                         *)
(***************************************************************************)
C24_GateUsesOwnAngle ==
    Scanning =>
        \A n \in 1 .. Len(previous_storms(time_index)) :
            ReachesAngularTest(n) =>
                LET P == previous_storms(time_index)[n]
                    own == OwnAngle(time_index, label, P)
                IN  IF own.kind # "unassigned"
                    THEN Decision(After(n), P) =
                             (IF AngleAccepts(own) THEN "accept" ELSE "pass over")
                    ELSE \A a \in AngularValues :
                             Decision(PassWith(n, a), P) = Decision(After(n), P)

====
